---- MODULE Spec2Model ----
(***************************************************************************)
(* Model of the safe-execution core of pipe-wise:                          *)
(*   backend/core/security.py      validate_pandapipes_code, is_safe_path  *)
(*   backend/core/sandbox.py       run_command, run_python_snippet         *)
(*   backend/tools/base.py         _parse_sentinel_json,                   *)
(*                                 run_snippet_with_result                 *)
(*   backend/tools/pandapipes_runner.py   the HARNESS script               *)
(*                                        and run_pandapipes_code          *)
(* Independent state machines share the module; each specification runs    *)
(* one of them and holds the variables of the others at their initial      *)
(* values.                                                                 *)
(***************************************************************************)
EXTENDS Integers, Sequences, FiniteSets, TLC

VARIABLES
    \* ---- validator (security.py) ----
    vpc,        \* "idle" | "returned" | "raised"
    vcode,      \* the text handed to validate_pandapipes_code (abstracted, see CodeInputs)
    vresult,    \* the returned mapping, or the escaped exception
    vleft,      \* the msgs list as the last call left it
    vseen,      \* an earlier call: its text and what it returned or raised
    vcalls,     \* how many calls have been made
    \* ---- harness script (pandapipes_runner.py HARNESS), run in the child ----
    hpc,        \* position of the script
    USER_CODE,  \* what the embedded user source does when executed
    hglobals,   \* the script's globals that the parent later reads
    hstdout,    \* the lines the child has written to stdout
    hexit,      \* exit status of the child, NoExit while it runs
    \* ---- sandbox (sandbox.py, base.py): concurrent calls, one child each ----
    pc,         \* position of each call
    args,       \* arguments of each call
    prog,       \* what the program run by each call's child does
    proc,       \* each call's child process and its pipes
    rc,         \* run_command's locals and the Popen object of each call
    tmpdir,     \* run_python_snippet's tmpdir of each call
    fs,         \* the directories under <allowed root>/workers and their script
    result,     \* what each call returned or raised
    \* ---- run_pandapipes_code (pandapipes_runner.py), after the child ----
    rpc,        \* "idle" | "called" | "returned" | "raised"
    tool_run,   \* rr, the ToolRun that run_snippet_with_result returned
    rreturn,    \* the returned mapping, or the escaped exception
    \* ---- the callers of the validator and the runner (api/, tools/) ----
    cpc,        \* position of the request's handler
    caller,     \* which handler it is
    ccode,      \* the code string the handler holds
    cchecked,   \* the strings validate_pandapipes_code accepted in this request
    cran,       \* the strings passed to run_pandapipes_code in this request
    citer,      \* how many runs the handler has started
    \* ---- one Popen of run_command: the fork and the child up to exec ----
    fpc,        \* position of the child, or "failed" once Popen has raised
    fargs,      \* the limits, working_dir and env of the run_command call
    fparent,    \* the parent process: limits, identity, directory, environ
    fchild,     \* the same of the forked child
    fsteps,     \* what _posix_preexec_fn has done in the child, in order
    \* ---- one call of is_safe_path (security.py) ----
    qpc,        \* "idle" | "called" | "returned"
    qpath,      \* the path argument
    qroot,      \* the allowed_root argument
    qsafe       \* what the call returned

vvars == <<vpc, vcode, vresult, vleft, vseen, vcalls>>
hvars == <<hpc, USER_CODE, hglobals, hstdout, hexit>>
svars == <<pc, args, prog, proc, rc, tmpdir, fs, result>>
rvars == <<rpc, tool_run, rreturn>>
cvars == <<cpc, caller, ccode, cchecked, cran, citer>>
fvars == <<fpc, fargs, fparent, fchild, fsteps>>
qvars == <<qpc, qpath, qroot, qsafe>>
vars == <<vvars, hvars, svars, rvars, cvars, fvars, qvars>>

\* what the steps of one component leave alone
VOther == UNCHANGED <<hvars, svars, rvars, cvars, fvars, qvars>>
HOther == UNCHANGED <<vvars, svars, rvars, cvars, fvars, qvars>>
SOther == UNCHANGED <<vvars, hvars, rvars, cvars, fvars, qvars>>
ROther == UNCHANGED <<vvars, svars, cvars, fvars, qvars>>
COther == UNCHANGED <<vvars, hvars, svars, rvars, fvars, qvars>>
FOther == UNCHANGED <<vvars, hvars, svars, rvars, cvars, qvars>>
QOther == UNCHANGED <<vvars, hvars, svars, rvars, cvars, fvars>>

(***************************************************************************)
(* Bounds of the model.                                                    *)
(***************************************************************************)
MaxStmts == 2       \* top-level statements in a parsed input
MaxNest == 1        \* nesting depth of a statement inside function bodies
NumCalls == 2       \* concurrent calls into the sandbox
MaxOut == 2         \* lines a child writes to stdout

NoValue == "None"

(***************************************************************************)
(* Python's ast nodes.  Only the node kinds and fields that                *)
(* iter_child_nodes yields and that the two tree walks read are kept.      *)
(***************************************************************************)
Name(id, line, col) ==
    [kind |-> "Name", id |-> id, lineno |-> line, col_offset |-> col]
Constant(value, isStr, line, col) ==
    [kind |-> "Constant", value |-> value, isStr |-> isStr, lineno |-> line, col_offset |-> col]
Attribute(value, attr) ==
    [kind |-> "Attribute", value |-> value, attr |-> attr,
     lineno |-> value.lineno, col_offset |-> value.col_offset]
Keyword(arg, value) ==
    [kind |-> "keyword", arg |-> arg, value |-> value]
Call(func, keywords) ==
    [kind |-> "Call", func |-> func, keywords |-> keywords,
     lineno |-> func.lineno, col_offset |-> func.col_offset]
Expr(value) ==
    [kind |-> "Expr", value |-> value, lineno |-> value.lineno, col_offset |-> value.col_offset]
Alias(name) ==
    [kind |-> "alias", name |-> name]
Import(names, line, col) ==
    [kind |-> "Import", names |-> names, lineno |-> line, col_offset |-> col]
\* module is a dotted path as a sequence of components; <<>> is Python's None
\* (from . import x)
ImportFrom(module, line, col) ==
    [kind |-> "ImportFrom", module |-> module, lineno |-> line, col_offset |-> col]
FunctionDef(body, line, col) ==
    [kind |-> "FunctionDef", body |-> body, lineno |-> line, col_offset |-> col]
Module(body) ==
    [kind |-> "Module", body |-> body]

\* ast.iter_child_nodes: the child nodes of a node, in field order
iter_child_nodes(node) ==
    CASE node.kind = "Module" -> node.body
      [] node.kind = "FunctionDef" -> node.body
      [] node.kind = "Expr" -> <<node.value>>
      [] node.kind = "Call" -> <<node.func>> \o node.keywords
      [] node.kind = "keyword" -> <<node.value>>
      [] node.kind = "Attribute" -> <<node.value>>
      [] node.kind = "Import" -> node.names
      [] OTHER -> <<>>

\* ast.walk: todo = deque([node]); while todo: node = todo.popleft();
\* todo.extend(iter_child_nodes(node)); yield node
RECURSIVE walk_queue(_)
walk_queue(todo) ==
    IF todo = <<>> THEN <<>>
    ELSE <<Head(todo)>> \o walk_queue(Tail(todo) \o iter_child_nodes(Head(todo)))

ast_walk(tree) == walk_queue(<<tree>>)

(***************************************************************************)
(* The inputs of the validator.  A text is abstracted to what the code     *)
(* reads of it: whether it is missing/empty/whitespace, whether the        *)
(* substring "import pandapipes" occurs in it, what ast.parse does with    *)
(* it, and, when it parses, its statements.  A parsed text is a sequence   *)
(* of statements <<i, d>>: statement shape i of Statement, written inside  *)
(* d nested function bodies.                                               *)
(***************************************************************************)
NumShapes == 21

\* Statement shape i, written at the given line and column.
Statement(i, line, col) ==
    LET pp == Name("pp", line, col)
        pandapipes == Name("pandapipes", line, col)
        net == Name("net", line, col)
    IN CASE i = 1 -> Import(<<Alias(<<"os">>)>>, line, col)                    \* import os
         [] i = 2 -> Import(<<Alias(<<"pandapipes">>)>>, line, col)            \* import pandapipes as pp
         [] i = 3 -> Import(<<Alias(<<"pandapipes">>),
                              Alias(<<"os", "path">>)>>, line, col)            \* import pandapipes, os.path
         [] i = 4 -> ImportFrom(<<"os">>, line, col)                           \* from os import system
         [] i = 5 -> ImportFrom(<<"pandapipes", "networks">>, line, col)       \* from pandapipes.networks import x
         [] i = 6 -> ImportFrom(<<>>, line, col)                               \* from . import x
         [] i = 7 -> Expr(Call(Attribute(pp, "create_junction"), <<>>))        \* pp.create_junction()
         [] i = 8 -> Expr(Call(Attribute(pp, "evil"), <<>>))                   \* pp.evil()
         [] i = 9 -> Expr(Call(Attribute(pandapipes, "create_empty_network"),
                    <<Keyword("fluid", Constant("lgas", TRUE, line, col + 8))>>)) \* pandapipes.create_empty_network(fluid="lgas")
         [] i = 10 -> Expr(Call(Attribute(pp, "create_empty_network"),
                    <<Keyword("fluid", Name("FLUID", line, col + 8))>>))       \* pp.create_empty_network(fluid=FLUID)
         [] i = 11 -> Expr(Call(Attribute(Attribute(net, "res_junction"),
                                          "describe"), <<>>))                  \* net.res_junction.describe()
         [] i = 12 -> Expr(Call(Attribute(Attribute(pandapipes, "networks"),
                                          "create_pipe"), <<>>))               \* pandapipes.networks.create_pipe()
         [] i = 13 -> Expr(Call(Attribute(Name("os", line, col), "system"), <<>>))  \* os.system()
         [] i = 14 -> Expr(Attribute(pp, "__class__"))                         \* pp.__class__
         [] i = 15 -> Expr(Attribute(pp, "__version__"))                       \* pp.__version__
         [] i = 16 -> Expr(Call(Attribute(pp, "__subclasses__"), <<>>))        \* pp.__subclasses__()
         [] i = 17 -> Expr(Call(Attribute(Name("x", line, col), "__class__"), <<>>)) \* x.__class__()
         [] i = 18 -> Expr(Call(Name("create_source", line, col), <<>>))       \* create_source()
         [] i = 20 -> Expr(Call(Attribute(pp, "create_junction"),
                    <<Keyword("fluid", Constant("water", TRUE, line, col + 8))>>)) \* pp.create_junction(fluid="water")
         [] i = 21 -> Expr(Call(Attribute(pp, "create_empty_network"),
                    <<Keyword("fluid", Constant("5", FALSE, line, col + 8))>>)) \* pp.create_empty_network(fluid=5)
         [] OTHER -> Import(<<Alias(<<"os">>), Alias(<<"sys">>)>>, line, col)  \* import os, sys

\* Statement i inside d nested "def f():" blocks, the outermost at line, col.
RECURSIVE Nested(_, _, _, _)
Nested(i, d, line, col) ==
    IF d = 0 THEN Statement(i, line, col)
    ELSE FunctionDef(<<Nested(i, d - 1, line + 1, col + 4)>>, line, col)

\* The module body of a source text: statement k starts on the line after
\* the last line of statement k-1.
RECURSIVE Body(_, _)
Body(stmts, line) ==
    IF stmts = <<>> THEN <<>>
    ELSE <<Nested(Head(stmts)[1], Head(stmts)[2], line, 0)>>
         \o Body(Tail(stmts), line + Head(stmts)[2] + 1)

Sources == UNION {[1..n -> (1..NumShapes) \X (0..MaxNest)] : n \in 0..MaxStmts}

\* What ast.parse raises on a text that is not a program: SyntaxError (with
\* the parser's line and column, 0 standing for None), or, for a text
\* the tokenizer cannot encode or a nesting the parser cannot hold, an
\* exception that is not a SyntaxError.
ParseErrors == {"SyntaxError", "UnicodeEncodeError", "MemoryError"}
MaxLine == 2

CodeInputs ==
    \* None, "", "  \n"
    {[text |-> t, mentions |-> FALSE, parse |-> "ok", errline |-> 0,
      erroffset |-> 0, stmts |-> <<>>] : t \in {"None", "empty", "whitespace"}}
    \cup
    \* texts that do not parse
    {[text |-> "source", mentions |-> m, parse |-> "SyntaxError", errline |-> l,
      erroffset |-> o, stmts |-> <<>>] :
        m \in BOOLEAN, l \in 0..MaxLine, o \in 0..MaxLine}
    \cup
    {[text |-> "source", mentions |-> m, parse |-> e, errline |-> 0,
      erroffset |-> 0, stmts |-> <<>>] :
        m \in BOOLEAN, e \in ParseErrors \ {"SyntaxError"}}
    \cup
    \* programs
    {[text |-> "source", mentions |-> m, parse |-> "ok", errline |-> 0,
      erroffset |-> 0, stmts |-> s] : m \in BOOLEAN, s \in Sources}

\* ast.parse(code_str) of a text that parses
ast_parse(code) == Module(Body(code.stmts, 1))

(***************************************************************************)
(* security.py: the whitelist and the two tree walks.                      *)
(***************************************************************************)
\* _ALLOWED_FUNCS: the top-level functions of the installed pandapipes, as
\* far as the statements above name them.
ALLOWED_FUNCS ==
    {"create_empty_network", "create_junction", "create_pipe",
     "create_pipe_from_parameters", "create_sink", "create_source",
     "create_ext_grid", "create_valve", "create_compressor", "create_pump",
     "create_heat_exchanger", "pipeflow"}

ComponentKinds ==
    {"junctions", "pipes", "sinks", "sources", "ext_grids", "valves",
     "compressors", "pumps", "heat_exchangers"}

\* _fname: the called name, "" for None
fname(node) ==
    CASE node.kind = "Name" -> node.id
      [] node.kind = "Attribute" -> node.attr
      [] OTHER -> ""

\* the component kind a creator name counts toward, "" for none
CountedKind(fn) ==
    CASE fn = "create_junction" -> "junctions"
      [] fn \in {"create_pipe_from_parameters", "create_pipe"} -> "pipes"
      [] fn = "create_sink" -> "sinks"
      [] fn = "create_source" -> "sources"
      [] fn = "create_ext_grid" -> "ext_grids"
      [] fn = "create_valve" -> "valves"
      [] fn = "create_compressor" -> "compressors"
      [] fn = "create_pump" -> "pumps"
      [] fn = "create_heat_exchanger" -> "heat_exchangers"
      [] OTHER -> ""

\* lines 146-152 without the test of line 148: whatever fluid= is given is
\* taken, a variable by its name
RECURSIVE FluidOf_AnyValue(_, _)
FluidOf_AnyValue(keywords, fluid) ==
    IF keywords = <<>> THEN fluid
    ELSE LET kw == Head(keywords)
         IN FluidOf_AnyValue(Tail(keywords),
                    IF kw.arg = "fluid"
                    THEN (IF kw.value.kind = "Constant" THEN kw.value.value
                          ELSE kw.value.id)
                    ELSE fluid)

\* the fluid= keyword of one create_empty_network call, applied to the fluid
\* found so far: the last literal string wins
RECURSIVE FluidOf(_, _)
FluidOf(keywords, fluid) ==
    IF keywords = <<>> THEN fluid
    ELSE LET kw == Head(keywords)
         IN FluidOf(Tail(keywords),
                    IF kw.arg = "fluid" /\ kw.value.kind = "Constant" /\ kw.value.isStr
                    THEN kw.value.value ELSE fluid)

\* the loop body of _infer_counts_and_fluid over the nodes of the walk
RECURSIVE InferLoop(_, _)
InferLoop(nodes, acc) ==
    IF nodes = <<>> THEN acc
    ELSE LET node == Head(nodes)
             fn == IF node.kind = "Call" THEN fname(node.func) ELSE ""
             k == CountedKind(fn)
             fluid == IF fn = "create_empty_network"
                      THEN FluidOf(node.keywords, acc.fluid) ELSE acc.fluid
             counts == IF k = "" THEN acc.components
                       ELSE [acc.components EXCEPT ![k] = @ + 1]
         IN InferLoop(Tail(nodes), [fluid |-> fluid, components |-> counts])

infer_counts_and_fluid(tree) ==
    InferLoop(ast_walk(tree),
              [fluid |-> NoValue, components |-> [k \in ComponentKinds |-> 0]])

\* {"fluid": None, "components": {}}
EmptyInferred == [fluid |-> NoValue, components |-> <<>>]

Where(node) == [line |-> node.lineno, col |-> node.col_offset + 1]

\* mutant of ImportMsgs: only the first alias of "import a, b" is examined
ImportMsgs_FirstAliasOnly(names, node) ==
    IF names # <<>> /\ names[1].name[1] # "pandapipes"
    THEN <<[level |-> "blocked", text |-> <<"Disallowed import", names[1].name>>,
            where |-> Where(node)]>>
    ELSE <<>>

\* the blocked messages of one "import a, b" node: one per alias whose root
\* is not pandapipes
RECURSIVE ImportMsgs(_, _)
ImportMsgs(names, node) ==
    IF names = <<>> THEN <<>>
    ELSE LET alias == Head(names)
             root == alias.name[1]
         IN (IF root # "pandapipes"
             THEN <<[level |-> "blocked", text |-> <<"Disallowed import", alias.name>>,
                     where |-> Where(node)]>>
             ELSE <<>>)
            \o ImportMsgs(Tail(names), node)

ImportFromMsgs(node) ==
    LET root == IF node.module # <<>> THEN node.module[1] ELSE ""
    IN IF root # "pandapipes"
       THEN <<[level |-> "blocked", text |-> <<"Disallowed import from", node.module>>,
               where |-> Where(node)]>>
       ELSE <<>>

\* mutant of CallMsgs: the name checked against the whitelist is the base
\* (node.func.value.id) instead of the attribute
CallMsgs_PolicesBase(node) ==
    LET func == node.func
        first == func.kind = "Attribute" /\ func.value.kind = "Name"
    IN IF first /\ func.value.id \in {"pp", "pandapipes"}
          /\ func.value.id \notin ALLOWED_FUNCS
       THEN <<[level |-> "blocked", text |-> <<"Disallowed function", <<func.value.id>>>>,
               where |-> [line |-> node.lineno, col |-> node.col_offset + 1]]>>
       ELSE <<>>

\* Calls: only a callee base.fn with base pp or pandapipes, or a callee
\* x.base.fn, is checked against the whitelist
CallMsgs(node) ==
    LET func == node.func
        first == func.kind = "Attribute" /\ func.value.kind = "Name"
        second == func.kind = "Attribute" /\ func.value.kind = "Attribute"
        allow_check == \/ first /\ func.value.id \in {"pp", "pandapipes"}
                       \/ ~first /\ second /\ func.value.attr # ""
        fn_name == IF allow_check THEN func.attr ELSE ""
    IN IF allow_check /\ fn_name # "" /\ fn_name \notin ALLOWED_FUNCS
       THEN <<[level |-> "blocked", text |-> <<"Disallowed function", <<fn_name>>>>,
               where |-> Where(node)]>>
       ELSE <<>>

\* attr.startswith("__")
IsDunder(attr) ==
    attr \in {"__class__", "__version__", "__subclasses__"}

\* mutant of AttributeMsgs: a list of forbidden names instead of the prefix
AttributeMsgs_ClassOnly(node) ==
    IF node.attr = "__class__"
    THEN <<[level |-> "blocked", text |-> <<"Disallowed access to", <<node.attr>>>>,
            where |-> [line |-> node.lineno, col |-> node.col_offset + 1]]>>
    ELSE <<>>

AttributeMsgs(node) ==
    IF IsDunder(node.attr) /\ node.attr # "__version__"
    THEN <<[level |-> "blocked", text |-> <<"Disallowed access to", <<node.attr>>>>,
            where |-> Where(node)]>>
    ELSE <<>>

\* the if/elif chain of the scan loop for one node
NodeMsgs(node) ==
    CASE node.kind = "Import" -> ImportMsgs(node.names, node)
      [] node.kind = "ImportFrom" -> ImportFromMsgs(node)
      [] node.kind = "Call" -> CallMsgs(node)
      [] node.kind = "Attribute" -> AttributeMsgs(node)
      [] OTHER -> <<>>

\* mutant of ScanLoop: the walk stops at the first node that has a violation
RECURSIVE ScanLoop_StopsAtFirst(_)
ScanLoop_StopsAtFirst(nodes) ==
    IF nodes = <<>> THEN <<>>
    ELSE IF NodeMsgs(Head(nodes)) # <<>> THEN NodeMsgs(Head(nodes))
         ELSE ScanLoop_StopsAtFirst(Tail(nodes))

\* for node in ast.walk(tree): ... msgs.append(...)
RECURSIVE ScanLoop(_)
ScanLoop(nodes) ==
    IF nodes = <<>> THEN <<>>
    ELSE NodeMsgs(Head(nodes)) \o ScanLoop(Tail(nodes))

\* mutant of ComputeOk: a warning fails the validation as well
ComputeOk_WarnFails(msgs) ==
    ~ \E k \in 1..Len(msgs) : msgs[k].level \in {"blocked", "error", "warn"}

\* ok = not any(m.get("level") in ("blocked", "error") for m in msgs)
ComputeOk(msgs) ==
    ~ \E k \in 1..Len(msgs) : msgs[k].level \in {"blocked", "error"}

MissingImportMsgs(code) ==
    IF ~code.mentions
    THEN <<[level |-> "warn", text |-> <<"Missing 'import pandapipes as pp'", <<>>>>,
            where |-> [line |-> 1, col |-> 1]]>>
    ELSE <<>>

\* mutant of EmptyMsgs: the import hint is given before the early return
EmptyMsgs_AfterHint(code) ==
    MissingImportMsgs(code) \o <<[level |-> "error", text |-> <<"code is empty", <<>>>>]>>

\* lines 187-190: the messages of the early return for a text that is
\* missing, empty or blank; nothing has been appended to msgs before it
EmptyMsgs(code) == <<[level |-> "error", text |-> <<"code is empty", <<>>>>]>>

Returned(ok, msgs, inferred) ==
    [raised |-> NoValue, ok |-> ok, messages |-> msgs, inferred |-> inferred]
Raised(exc) ==
    [raised |-> exc, ok |-> FALSE, messages |-> <<>>, inferred |-> EmptyInferred]

\* validate_pandapipes_code(code): the returned mapping, or the exception
\* that leaves the function
validate_pandapipes_code(code) ==
    IF code.text # "source"
    THEN Returned(FALSE, EmptyMsgs(code), EmptyInferred)
    ELSE LET msgs == MissingImportMsgs(code)
         IN CASE code.parse = "SyntaxError" ->
                   Returned(FALSE,
                            msgs \o <<[level |-> "error", text |-> <<"SyntaxError", <<>>>>,
                                       where |-> [line |-> IF code.errline # 0 THEN code.errline ELSE 1,
                                                  col |-> IF code.erroffset # 0 THEN code.erroffset ELSE 1]]>>,
                            EmptyInferred)
              [] code.parse \notin {"ok", "SyntaxError"} ->
                   \* try: ast.parse(...) except SyntaxError: any other exception leaves
                   Raised(code.parse)
              [] OTHER ->
                   LET tree == ast_parse(code)
                       all == msgs \o ScanLoop(ast_walk(tree))
                   IN Returned(ComputeOk(all), all, infer_counts_and_fluid(tree))

(***************************************************************************)
(* The validator as a state machine: a caller holds a text, calls          *)
(* validate_pandapipes_code on it, and the call returns or raises; the     *)
(* caller may then call again.                                             *)
(***************************************************************************)
NoResult == Raised("pending")
MaxCalls == 3

\* no earlier call is remembered
NoCode == CHOOSE c \in CodeInputs : c.text = "None"
NoSeen == [set |-> FALSE, code |-> NoCode, result |-> NoResult]

\* mutant of FreshMsgs: msgs is one list shared by all calls
FreshMsgs_Shared(left) == left

\* line 186: msgs = [], a new list in every call, whatever list the call
\* before worked on
FreshMsgs(left) == <<>>

\* One call on the list msgs that line 186 binds: what the call returns or
\* raises.  The early return and the exception carry no msgs; the other
\* returns carry the list, and ok is computed over all of it.
validate_call(left, code) ==
    LET r == validate_pandapipes_code(code)
        all == FreshMsgs(left) \o r.messages
    IN IF r.raised # NoValue \/ code.text # "source" THEN r
       ELSE [r EXCEPT !.messages = all, !.ok = r.ok /\ ComputeOk(all)]

\* the list msgs when the call ends
LeftBy(left, code) ==
    LET r == validate_pandapipes_code(code)
    IN CASE code.text # "source" -> FreshMsgs(left)
         [] r.raised # NoValue -> FreshMsgs(left) \o MissingImportMsgs(code)
         [] OTHER -> FreshMsgs(left) \o r.messages

\* the texts of the calls that follow one another: the texts that are no
\* program, and the programs of at most one statement outside any function
PureInputs ==
    {c \in CodeInputs :
        /\ c.errline = 0 /\ c.erroffset = 0
        /\ Len(c.stmts) <= 1
        /\ \A k \in DOMAIN c.stmts : c.stmts[k][2] = 0
        /\ (c.parse = "ok" /\ c.stmts # <<>>) => c.mentions}

VRest ==
    /\ vpc = "called"
    /\ vresult = NoResult
    /\ vleft = <<>>
    /\ vseen = NoSeen
    /\ vcalls = 1

VInit ==
    /\ vcode \in CodeInputs
    /\ VRest

\* the first of several calls
VInitPure ==
    /\ vcode \in PureInputs
    /\ VRest

\* the call runs to its return statement, or to the exception that leaves it
Validate ==
    /\ vpc = "called"
    /\ vresult' = validate_call(vleft, vcode)
    /\ vleft' = LeftBy(vleft, vcode)
    /\ vpc' = IF validate_pandapipes_code(vcode).raised = NoValue
              THEN "returned" ELSE "raised"
    /\ UNCHANGED <<vcode, vseen, vcalls>>
    /\ VOther

\* the caller calls again, on any text; the call that just ended may be
\* the one to compare later calls with
ValidateAgain ==
    /\ vpc \in {"returned", "raised"}
    /\ vcalls < MaxCalls
    /\ \E c \in PureInputs, keep \in BOOLEAN :
         /\ vcode' = c
         /\ vseen' = IF keep THEN [set |-> TRUE, code |-> vcode, result |-> vresult]
                     ELSE vseen
    /\ vpc' = "called"
    /\ vresult' = NoResult
    /\ vcalls' = vcalls + 1
    /\ UNCHANGED vleft
    /\ VOther


(***************************************************************************)
(* pandapipes_runner.py: the HARNESS script, one run in the child process. *)
(***************************************************************************)
NoExit == -1

\* What executing the user source does (exec(compile(USER_CODE, ...),
\* globals())): the lines it prints, how it ends, the line it raises at,
\* what the global net is bound to when it ends, whether it rebinds the
\* name json of the script's globals it runs in, whether it leaves an
\* object whose finalizer prints a sentinel line when the interpreter exits,
\* and what the traceback of its exception shows after the frame of the
\* user source (see Traceback).
UserPrints == {<<>>, <<"log">>, <<"sentinel">>}
UserEnds == {"completes", "raises", "exits"}    \* exits: SystemExit, not an Exception
NetBindings == {"undefined", "network", "object"}
MaxUserLine == 2

UserCodes ==
    [prints : UserPrints, ends : UserEnds, line : 1..MaxUserLine,
     net : NetBindings, rebinds_json : BOOLEAN, at_exit : BOOLEAN,
     tb_tail : {"none", "library", "lookalike", "message"}]

StdoutLine(by, sentinel, payload) ==
    [by |-> by, sentinel |-> sentinel, payload |-> payload]

\* the lines the user code prints: a log line, or a line that itself starts
\* with the sentinel prefix
RECURSIVE UserLines(_)
UserLines(prints) ==
    IF prints = <<>> THEN <<>>
    ELSE <<StdoutLine("user", Head(prints) = "sentinel", "user")>>
         \o UserLines(Tail(prints))

\* what the finalizers of the user's objects print when the interpreter
\* exits, after the last line of the script
AtExit(user) ==
    IF user.at_exit THEN <<StdoutLine("user", TRUE, "user")>> ELSE <<>>

\* lines 118-121 and 145, 170
HGlobals0 ==
    [user_code_error |-> FALSE, user_error |-> NoValue, user_error_line |-> 0,
     user_traceback |-> NoValue, pipeflow_error |-> NoValue,
     solved |-> 0, artifacts |-> "empty", tables |-> "none"]

HInit ==
    /\ hpc = "not_started"
    /\ USER_CODE \in UserCodes
    /\ hglobals = HGlobals0
    /\ hstdout = <<>>
    /\ hexit = NoExit

HIdle ==
    /\ hpc = "not_started"
    /\ USER_CODE = [prints |-> <<>>, ends |-> "completes", line |-> 1,
                    net |-> "network", rebinds_json |-> FALSE, at_exit |-> FALSE,
                    tb_tail |-> "none"]
    /\ hglobals = HGlobals0
    /\ hstdout = <<>>
    /\ hexit = NoExit

\* lines 107-121: imports, matplotlib environment (its failure is passed
\* over), USER_CODE and the error variables
HStart ==
    /\ hpc = "not_started"
    /\ hpc' = "user_code_executing"
    /\ UNCHANGED <<USER_CODE, hglobals, hstdout, hexit>>
    /\ HOther

\* A line of traceback.format_exc() that the pattern
\* File "([^"]+)", line (\d+) matches: the quoted path, cut into pieces so
\* that "fname in path" can be decided, the number, and whether the line is
\* the header of a frame or part of the exception's message.
TbLine(path, line, frame) == [path |-> path, line |-> line, frame |-> frame]

\* a line number no line of the user source has
TailLine == MaxUserLine + 1

\* line 141: the text of the traceback, its matching lines in order.  The
\* first frame is the script's own (the exec of line 135, or the raise of
\* line 137, lines 31 and 33 of worker_snippet.py); an exception out of the
\* user source adds the frame of USER_CODE.py and then, by tb_tail, nothing,
\* a frame of a library file, a frame of a file whose name contains
\* USER_CODE.py (a module the user code wrote and imported), or a message
\* that itself reads: File "USER_CODE.py", line N.
Traceback(user, raisedInUserCode) ==
    IF ~raisedInUserCode
    THEN <<TbLine(<<"worker_snippet.py">>, 33, TRUE)>>
    ELSE <<TbLine(<<"worker_snippet.py">>, 31, TRUE),
           TbLine(<<"USER_CODE.py">>, user.line, TRUE)>>
         \o CASE user.tb_tail = "library" ->
                    <<TbLine(<<"pandapipes/", "create.py">>, TailLine, TRUE)>>
              [] user.tb_tail = "lookalike" ->
                    <<TbLine(<<"MY_", "USER_CODE.py">>, TailLine, TRUE)>>
              [] user.tb_tail = "message" ->
                    <<TbLine(<<"USER_CODE.py">>, TailLine, FALSE)>>
              [] OTHER -> <<>>

\* lines 125-130: the number of the last matching line whose path contains
\* fname, a substring test (0 is None)
RECURSIVE ExtractLoop(_, _)
ExtractLoop(tb, last) ==
    IF tb = <<>> THEN last
    ELSE ExtractLoop(Tail(tb),
                     IF \E k \in DOMAIN Head(tb).path : Head(tb).path[k] = "USER_CODE.py"
                     THEN Head(tb).line ELSE last)

\* _extract_user_line
extract_user_line(tb) == ExtractLoop(tb, 0)

\* mutant of SolveAttempted: the solve is attempted whatever the user code
\* did
SolveAttempted_Always(g) == TRUE

\* line 146: if not user_code_error
SolveAttempted(g) == ~g.user_code_error

\* where the script goes after the try of lines 134-142
AfterUserCode(g) ==
    IF SolveAttempted(g) THEN "solve_executing" ELSE "user_code_failed"

\* lines 134-142: exec the user source; a missing net is a NameError; any
\* Exception is recorded.  SystemExit is not an Exception: it ends the
\* process with nothing printed by the harness.
HExecUser ==
    /\ hpc = "user_code_executing"
    /\ hstdout' = hstdout \o UserLines(USER_CODE.prints)
                   \o (IF USER_CODE.ends = "exits" THEN AtExit(USER_CODE) ELSE <<>>)
    /\ CASE USER_CODE.ends = "exits" ->
              /\ hpc' = "died"
              /\ \E code \in {0, 1} : hexit' = code
              /\ UNCHANGED hglobals
         [] USER_CODE.ends = "raises" ->
              /\ hglobals' = [hglobals EXCEPT
                    !.user_code_error = TRUE,
                    !.user_error = "Exception",
                    !.user_traceback = "traceback",
                    !.user_error_line = extract_user_line(Traceback(USER_CODE, TRUE))]
              /\ hpc' = AfterUserCode(hglobals')
              /\ UNCHANGED hexit
         [] USER_CODE.ends = "completes" /\ USER_CODE.net = "undefined" ->
              /\ hglobals' = [hglobals EXCEPT
                    !.user_code_error = TRUE,
                    !.user_error = "NameError",
                    !.user_traceback = "traceback",
                    !.user_error_line = extract_user_line(Traceback(USER_CODE, FALSE))]
              /\ hpc' = AfterUserCode(hglobals')
              /\ UNCHANGED hexit
         [] OTHER ->
              /\ hpc' = AfterUserCode(hglobals)
              /\ UNCHANGED <<hglobals, hexit>>
    /\ UNCHANGED USER_CODE
    /\ HOther

\* line 151: the texts f"{type(e).__name__}: {e}" of the solver's exceptions,
\* by what _diagnose reads of them: a PipeflowNotConverged, or another type
SolveErrors == {"PipeflowNotConverged", "Exception"}

\* lines 145-151: pp.pipeflow(net) when the user code was OK; its exception
\* becomes pipeflow_error.  A net that is no network makes pipeflow raise.
HSolve ==
    /\ hpc = "solve_executing"
    /\ \E outcome \in SolveErrors \cup {NoValue} :
         /\ (USER_CODE.net # "network" => outcome = "Exception")
         /\ hglobals' = [hglobals EXCEPT
               !.solved = @ + 1,
               !.pipeflow_error = outcome]
         /\ hpc' = IF outcome # NoValue THEN "solve_failed" ELSE "solve_succeeded"
    /\ UNCHANGED <<USER_CODE, hstdout, hexit>>
    /\ HOther

\* lines 170-171: artifacts = {}; try:
HBeginExtract ==
    /\ hpc \in {"user_code_failed", "solve_failed", "solve_succeeded"}
    /\ hpc' = "extracting"
    /\ UNCHANGED <<USER_CODE, hglobals, hstdout, hexit>>
    /\ HOther

\* mutant of ArtifactsOnError: the error is added to what was extracted
ArtifactsOnError_KeepsPartial(g, reached) ==
    [g EXCEPT !.artifacts = "error", !.tables = reached]

\* line 202: artifacts = {'error': ...} is a new object; the design and the
\* results extracted before the exception (reached) stay in the locals
ArtifactsOnError(g, reached) ==
    [g EXCEPT !.artifacts = "error", !.tables = "none"]

\* lines 172-202: design, results and summary from globals().get('net',
\* object()); any Exception replaces the payload by {'error': ...}.  With no
\* net every table is empty; the tables of an object that is no network may
\* fail to extract, at the first table or after some were extracted; the
\* values a table holds may not be JSON-serialisable.
HExtract ==
    /\ hpc = "extracting"
    /\ \E outcome \in {"empty", "records", "unserialisable", "raises"} :
         /\ USER_CODE.net = "undefined" => outcome = "empty"
         /\ USER_CODE.net = "network" => outcome \in {"records", "unserialisable"}
         /\ IF outcome = "raises"
            THEN /\ \E reached \in {"none", "records"} :
                      hglobals' = ArtifactsOnError(hglobals, reached)
                 /\ hpc' = "extract_failed"
            ELSE /\ hglobals' = [hglobals EXCEPT !.artifacts = "full", !.tables = outcome]
                 /\ hpc' = "artifacts_ready"
    /\ UNCHANGED <<USER_CODE, hstdout, hexit>>
    /\ HOther

\* the payload of line 211 after lines 205-209
Payload(g) ==
    [artifacts |-> g.artifacts, tables |-> g.tables,
     pipeflow_error |-> g.pipeflow_error, user_code_error |-> g.user_code_error,
     user_error |-> g.user_error, user_error_line |-> g.user_error_line,
     user_traceback |-> g.user_traceback]

\* whether print("PIPEWISE_RESULT_JSON::" + json.dumps(artifacts)) raises:
\* json is no longer the module, or a table value is not serialisable
EmitRaises(user, g) ==
    user.rebinds_json \/ g.tables = "unserialisable"

\* lines 204-211: carry the errors, print the sentinel line; the script ends.
\* An exception of line 211 is caught by nothing: the child ends with a
\* traceback on stderr and exit status 1.
HEmit ==
    /\ hpc \in {"extract_failed", "artifacts_ready"}
    /\ IF EmitRaises(USER_CODE, hglobals)
       THEN /\ hpc' = "died"
            /\ hexit' = 1
            /\ hstdout' = hstdout \o AtExit(USER_CODE)
       ELSE /\ hpc' = "emitted"
            /\ hexit' = 0
            /\ hstdout' = Append(hstdout, StdoutLine("harness", TRUE, Payload(hglobals)))
                           \o AtExit(USER_CODE)
    /\ UNCHANGED <<USER_CODE, hglobals>>
    /\ HOther


(***************************************************************************)
(* security.py: paths.  A path is a sequence of components, absolute or    *)
(* relative to the working directory of the server process.                *)
(***************************************************************************)
Path(abs, parts) == [abs |-> abs, parts |-> parts]

\* os.getcwd() of the server
Cwd == <<"srv", "app">>

\* DEFAULT_ALLOWED_ROOT = os.path.abspath(os.getenv("PIPEWISE_ALLOWED_ROOT",
\* "/tmp/pipewise_storage"))
DEFAULT_ALLOWED_ROOT == Path(TRUE, <<"tmp", "pipewise_storage">>)

\* os.path.normpath of an absolute path: "." is dropped, ".." drops the
\* component before it (and is dropped at the root)
RECURSIVE NormParts(_, _)
NormParts(parts, done) ==
    IF parts = <<>> THEN done
    ELSE LET c == Head(parts)
         IN NormParts(Tail(parts),
                      CASE c = "." -> done
                        [] c = ".." -> IF done = <<>> THEN done
                                       ELSE SubSeq(done, 1, Len(done) - 1)
                        [] OTHER -> Append(done, c))

\* os.path.abspath
abspath(path) ==
    Path(TRUE, NormParts(IF path.abs THEN path.parts ELSE Cwd \o path.parts, <<>>))

\* os.path.commonpath([a, b]) of two absolute paths: the longest common
\* prefix of components
RECURSIVE CommonParts(_, _)
CommonParts(a, b) ==
    IF a = <<>> \/ b = <<>> \/ Head(a) # Head(b) THEN <<>>
    ELSE <<Head(a)>> \o CommonParts(Tail(a), Tail(b))

\* None where a path is expected (working_dir=None, is_safe_path(None))
NoDir == Path(FALSE, <<>>)

\* mutant of is_safe_path: every path is accepted
is_safe_path_Always(path, allowed_root) == TRUE

\* mutant of is_safe_path: real_path.startswith(allowed_root) on the text of
\* the two paths, so that the last component of the root need only begin
\* the component of the path at its place
is_safe_path_StartsWith(path, allowed_root) ==
    LET root == abspath(allowed_root).parts
        real_path == abspath(path).parts
    IN /\ path # NoDir /\ allowed_root # NoDir
       /\ Len(real_path) >= Len(root)
       /\ \A k \in 1..Len(root) :
             \/ real_path[k] = root[k]
             \/ /\ k = Len(root)
                /\ root[k] = "pipewise_storage"
                /\ real_path[k] = "pipewise_storage_evil"

\* lines 45-51.  os.path.abspath(None) raises TypeError, which line 50
\* catches: False
is_safe_path(path, allowed_root) ==
    IF path = NoDir \/ allowed_root = NoDir THEN FALSE
    ELSE LET root == abspath(allowed_root)
             real_path == abspath(path)
         IN CommonParts(real_path.parts, root.parts) = root.parts

WorkersRoot == Path(TRUE, DEFAULT_ALLOWED_ROOT.parts \o <<"workers">>)

\* the names tempfile.mkdtemp(prefix="pipewise_worker_") may give
DirNames == {"pipewise_worker_a", "pipewise_worker_b", "pipewise_worker_c"}

TmpPath(d) == Path(TRUE, WorkersRoot.parts \o <<d>>)

\* the directories that exist besides the workers' temp directories
StaticDirs ==
    {<<>>, <<"tmp">>, <<"etc">>, <<"srv">>, <<"srv", "app">>,
     <<"tmp", "pipewise_storage">>, <<"tmp", "pipewise_storage", "workers">>,
     <<"tmp", "pipewise_storage_evil">>}

\* os.path.exists(path) of an absolute normalised path, given the temp
\* directories in existence
exists(path, files) ==
    \/ path.parts \in StaticDirs
    \/ \E d \in DirNames : files[d].exists /\ path.parts = TmpPath(d).parts

\* the working_dir arguments of direct run_command calls
WorkingDirs ==
    {NoDir,
     Path(TRUE, <<"tmp", "pipewise_storage">>),
     Path(TRUE, <<"tmp", "pipewise_storage", "workers", "..", "workers">>),
     Path(TRUE, <<"tmp", "pipewise_storage", "missing">>),
     Path(TRUE, <<"tmp", "pipewise_storage", "..", "..", "etc">>),
     Path(TRUE, <<"tmp", "pipewise_storage_evil">>),
     Path(TRUE, <<"etc">>),
     Path(FALSE, <<"workers">>)}

(***************************************************************************)
(* base.py: the sentinel protocol.  A line of stdout is a log line, a      *)
(* sentinel line with JSON payload A, B or null, or a sentinel line whose  *)
(* payload is not JSON.                                                    *)
(***************************************************************************)
Lines == {"log", "json_A", "json_B", "json_null", "malformed"}

\* line.startswith(SENTINEL)
StartsWithSentinel(line) == line # "log"

\* whether json.loads(payload) raises
JsonFails(line) == line = "malformed"

\* json.loads(payload)
json_loads(line) ==
    CASE line = "json_A" -> "A"
      [] line = "json_B" -> "B"
      [] OTHER -> NoValue

\* mutant of SentinelLoop: the first sentinel line that parses is kept
RECURSIVE SentinelLoop_FirstWins(_, _)
SentinelLoop_FirstWins(lines, acc) ==
    IF lines = <<>> THEN acc
    ELSE LET line == Head(lines)
         IN SentinelLoop_FirstWins(Tail(lines),
                IF line # "log"
                THEN IF line = "malformed" \/ acc.result # "None" THEN acc
                     ELSE [acc EXCEPT !.result = IF line = "json_A" THEN "A"
                                                 ELSE IF line = "json_B" THEN "B"
                                                 ELSE "None"]
                ELSE [acc EXCEPT !.logs = Append(@, line)])

\* mutant of SentinelLoop: a sentinel line whose payload does not parse is
\* kept as a log line
RECURSIVE SentinelLoop_MalformedLogged(_, _)
SentinelLoop_MalformedLogged(lines, acc) ==
    IF lines = <<>> THEN acc
    ELSE LET line == Head(lines)
         IN SentinelLoop_MalformedLogged(Tail(lines),
                IF line \notin {"log", "malformed"}
                THEN [acc EXCEPT !.result = IF line = "json_A" THEN "A"
                                            ELSE IF line = "json_B" THEN "B"
                                            ELSE "None"]
                ELSE [acc EXCEPT !.logs = Append(@, line)])

\* the loop of _parse_sentinel_json
RECURSIVE SentinelLoop(_, _)
SentinelLoop(lines, acc) ==
    IF lines = <<>> THEN acc
    ELSE LET line == Head(lines)
         IN SentinelLoop(Tail(lines),
                IF StartsWithSentinel(line)
                THEN IF JsonFails(line) THEN acc
                     ELSE [acc EXCEPT !.result = json_loads(line)]
                ELSE [acc EXCEPT !.logs = Append(@, line)])

parse_sentinel_json(stdout) ==
    IF stdout = <<>> THEN [result |-> NoValue, logs |-> <<>>]
    ELSE SentinelLoop(stdout, [result |-> NoValue, logs |-> <<>>])

\* the child's stdout as the parent reads it: the lines of the harness and
\* of the user code are lines of the same pipe
HarnessLine(l) ==
    IF ~l.sentinel THEN "log"
    ELSE IF l.by = "harness" THEN "json_A" ELSE "json_B"

ChildStdout(out) == [k \in DOMAIN out |-> HarnessLine(out[k])]

\* rr.result of run_snippet_with_result for the stdout of the harness run:
\* "A" is the payload the harness printed, "B" one the user code printed
ParentResult(out) == parse_sentinel_json(ChildStdout(out)).result

(***************************************************************************)
(* sandbox.py and base.py: the calls.  A call is a direct run_command      *)
(* (mode "command") or run_snippet_with_result, which goes through         *)
(* run_python_snippet to run_command (mode "snippet").                     *)
(***************************************************************************)
Calls == 1..NumCalls

SIGTERM == -15
SIGKILL == -9

\* timeout=None, limits.wall_time_seconds=None
NoTimeout == -1

\* the timeout= arguments and the limits.wall_time_seconds, in seconds
TimeoutValues == {NoTimeout, 0, 1}
WallValues == {NoTimeout, 1}

Outputs == UNION {[1..n -> Lines] : n \in 0..MaxOut}

\* What the spawned program does: the lines it writes, how it ends by
\* itself, whether it ignores SIGTERM, whether it leaves a descendant that
\* keeps the inherited output pipes open, and whether the parent may signal
\* it (a program that changed its uid cannot be signalled by a non-root
\* parent).
Programs ==
    [out : Outputs, ends : {"exit0", "exit1", "never"}, ignores_term : BOOLEAN,
     forks : BOOLEAN, signalable : BOOLEAN]

Program0 ==
    [out |-> <<>>, ends |-> "exit0", ignores_term |-> FALSE, forks |-> FALSE,
     signalable |-> TRUE]

CommandArgs ==
    [mode : {"command"}, command_empty : BOOLEAN, working_dir : WorkingDirs,
     timeout : TimeoutValues, wall : WallValues]

SnippetArgs ==
    [mode : {"snippet"}, command_empty : {FALSE}, working_dir : {NoDir},
     timeout : TimeoutValues, wall : WallValues]

Args0 ==
    [mode |-> "snippet", command_empty |-> FALSE, working_dir |-> NoDir,
     timeout |-> NoTimeout, wall |-> 1]

\* line 135, timeout or limits.wall_time_seconds: the first operand unless
\* it is falsy (None or 0), the second one then
Deadline(a) == IF a.timeout \notin {NoTimeout, 0} THEN a.timeout ELSE a.wall
HasDeadline(a) == Deadline(a) # NoTimeout

Proc0 ==
    [spawned |-> FALSE, alive |-> FALSE, exit_status |-> NoExit, written |-> 0,
     term_pending |-> FALSE, kill_pending |-> FALSE, descendant |-> FALSE,
     ran |-> 0]

\* run_command's locals (lines 125-128), proc.returncode, the exception on
\* its way out of run_command, and the history of the escalation
Rc0 ==
    [timed_out |-> FALSE, killed |-> FALSE, stdout |-> <<>>,
     returncode |-> NoExit, exc |-> NoValue, returned |-> FALSE,
     term_called |-> FALSE, term_sent |-> FALSE, grace_expired |-> FALSE,
     alive_at_grace_end |-> FALSE, kill_called |-> FALSE, kill_sent |-> FALSE,
     kill_before_grace_end |-> FALSE, deadline |-> NoTimeout]

NoDirName == "none"

Result0 ==
    [kind |-> "none", exc |-> NoValue, returncode |-> NoExit, stdout |-> <<>>,
     timed_out |-> FALSE, killed |-> FALSE, ok |-> FALSE, result |-> NoValue,
     logs |-> <<>>]

File0 == [exists |-> FALSE, script |-> 0]

\* the checks of lines 89-97 fail for these arguments, given no temp
\* directory is involved
PrecheckFails(a) ==
    \/ a.command_empty
    \/ /\ a.working_dir # NoDir
       /\ \/ ~is_safe_path(abspath(a.working_dir), DEFAULT_ALLOWED_ROOT)
          \/ abspath(a.working_dir).parts \notin StaticDirs

StartPc(a) == IF a.mode = "command" THEN "run_command" ELSE "snippet"

SRest ==
    /\ proc = [i \in Calls |-> Proc0]
    /\ rc = [i \in Calls |-> Rc0]
    /\ tmpdir = [i \in Calls |-> NoDirName]
    /\ fs = [d \in DirNames |-> File0]
    /\ result = [i \in Calls |-> Result0]

\* one call, of either mode, with any arguments and any program
SInit ==
    /\ \E a \in CommandArgs \cup SnippetArgs, p \in Programs :
         /\ PrecheckFails(a) => p = Program0
         /\ args = [i \in Calls |-> IF i = 1 THEN a ELSE Args0]
         /\ prog = [i \in Calls |-> IF i = 1 THEN p ELSE Program0]
         /\ pc = [i \in Calls |-> IF i = 1 THEN StartPc(a) ELSE "unused"]
    /\ SRest

\* the programs of the concurrent calls: a normal run, a failing run, a run
\* that outlives its deadline and ignores SIGTERM behind a descendant, and a
\* run that cannot be signalled
ConcurrentPrograms ==
    {[out |-> <<"json_A">>, ends |-> "exit0", ignores_term |-> FALSE,
      forks |-> FALSE, signalable |-> TRUE],
     [out |-> <<>>, ends |-> "exit1", ignores_term |-> FALSE,
      forks |-> FALSE, signalable |-> TRUE],
     [out |-> <<>>, ends |-> "never", ignores_term |-> TRUE,
      forks |-> TRUE, signalable |-> TRUE],
     [out |-> <<>>, ends |-> "never", ignores_term |-> FALSE,
      forks |-> FALSE, signalable |-> FALSE]}

\* NumCalls concurrent run_snippet_with_result calls
SInitConcurrent ==
    /\ args = [i \in Calls |-> Args0]
    /\ prog \in [Calls -> ConcurrentPrograms]
    /\ pc = [i \in Calls |-> "snippet"]
    /\ SRest

SIdle ==
    /\ args = [i \in Calls |-> Args0]
    /\ prog = [i \in Calls |-> Program0]
    /\ pc = [i \in Calls |-> "unused"]
    /\ SRest


\* ---- the child and its descendants ----

\* all write ends of the output pipes are closed
EOF(i) == ~proc[i].alive /\ ~proc[i].descendant

\* what has been written to the stdout pipe
Written(i) == SubSeq(prog[i].out, 1, proc[i].written)

\* the child writes its next line
ChildWrite(i) ==
    /\ proc[i].alive
    /\ proc[i].written < Len(prog[i].out)
    /\ proc' = [proc EXCEPT ![i].written = @ + 1]
    /\ UNCHANGED <<pc, args, prog, rc, tmpdir, fs, result>>
    /\ SOther

\* the child ends by itself
ChildExit(i) ==
    /\ proc[i].alive
    /\ prog[i].ends # "never"
    /\ proc[i].written = Len(prog[i].out)
    /\ proc' = [proc EXCEPT ![i].alive = FALSE,
                            ![i].exit_status = IF prog[i].ends = "exit0" THEN 0 ELSE 1]
    /\ UNCHANGED <<pc, args, prog, rc, tmpdir, fs, result>>
    /\ SOther

\* SIGTERM ends a child that does not ignore it
ChildTerminated(i) ==
    /\ proc[i].alive
    /\ proc[i].term_pending
    /\ ~prog[i].ignores_term
    /\ proc' = [proc EXCEPT ![i].alive = FALSE, ![i].exit_status = SIGTERM]
    /\ UNCHANGED <<pc, args, prog, rc, tmpdir, fs, result>>
    /\ SOther

\* SIGKILL ends the child
ChildKilled(i) ==
    /\ proc[i].alive
    /\ proc[i].kill_pending
    /\ proc' = [proc EXCEPT ![i].alive = FALSE, ![i].exit_status = SIGKILL]
    /\ UNCHANGED <<pc, args, prog, rc, tmpdir, fs, result>>
    /\ SOther

\* the descendant closes the pipes it inherited (it may never do so)
DescendantClose(i) ==
    /\ proc[i].descendant
    /\ proc' = [proc EXCEPT ![i].descendant = FALSE]
    /\ UNCHANGED <<pc, args, prog, rc, tmpdir, fs, result>>
    /\ SOther

\* ---- run_python_snippet, up to the call of run_command ----

\* mutant of mkdtemp_names: the directory name is not checked for existence
mkdtemp_names_Any(files) == DirNames

\* tempfile.mkdtemp: the names it may create, those of no existing directory
mkdtemp_names(files) == {d \in DirNames : ~files[d].exists}

\* lines 190-205: the roots exist (idempotent), mkdtemp creates this call's
\* directory
SnippetMkdtemp(i) ==
    /\ pc[i] = "snippet"
    /\ \E d \in mkdtemp_names(fs) :
         /\ tmpdir' = [tmpdir EXCEPT ![i] = d]
         /\ fs' = [fs EXCEPT ![d].exists = TRUE]
    /\ pc' = [pc EXCEPT ![i] = "write"]
    /\ UNCHANGED <<args, prog, proc, rc, result>>
    /\ SOther

\* lines 207-221: write the snippet to worker_snippet.py (chmod failures are
\* passed over).  write_text is outside the try/finally: when it raises (a
\* text that cannot be encoded, a full disk) the exception leaves
\* run_python_snippet at once.
SnippetWrite(i) ==
    /\ pc[i] = "write"
    /\ \E written \in BOOLEAN :
         IF written
         THEN /\ fs' = [fs EXCEPT ![tmpdir[i]].script = i]
              /\ pc' = [pc EXCEPT ![i] = "run_command"]
              /\ UNCHANGED result
         ELSE /\ pc' = [pc EXCEPT ![i] = "raised"]
              /\ result' = [result EXCEPT ![i] = [Result0 EXCEPT !.kind = "raised",
                                                                 !.exc = "WriteError"]]
              /\ UNCHANGED fs
    /\ UNCHANGED <<args, prog, proc, rc, tmpdir>>
    /\ SOther

\* ---- run_command ----

\* the command and working_dir run_command is called with
CommandEmpty(i) == args[i].mode = "command" /\ args[i].command_empty
WorkingDir(i) ==
    IF args[i].mode = "command" THEN args[i].working_dir ELSE TmpPath(tmpdir[i])

\* the SandboxError of lines 89-97, "" when the checks pass
PrecheckError(i) ==
    CASE CommandEmpty(i) -> "Empty command"
      [] WorkingDir(i) # NoDir
         /\ ~is_safe_path(abspath(WorkingDir(i)), DEFAULT_ALLOWED_ROOT) ->
            "Unsafe working_dir"
      [] WorkingDir(i) # NoDir /\ ~exists(abspath(WorkingDir(i)), fs) ->
            "Working directory does not exist"
      [] OTHER -> ""

\* an exception leaves run_command: it leaves a direct call, and sends
\* run_python_snippet to its finally block
RaisedFrom(i, exc) ==
    IF args[i].mode = "command"
    THEN /\ pc' = [pc EXCEPT ![i] = "raised"]
         /\ result' = [result EXCEPT ![i] = [Result0 EXCEPT !.kind = "raised", !.exc = exc]]
         /\ UNCHANGED rc
    ELSE /\ pc' = [pc EXCEPT ![i] = "cleanup"]
         /\ rc' = [rc EXCEPT ![i].exc = exc]
         /\ UNCHANGED result

\* lines 89-123: the checks before anything is spawned
RunCommandCheck(i) ==
    /\ pc[i] = "run_command"
    /\ IF PrecheckError(i) # ""
       THEN RaisedFrom(i, PrecheckError(i))
       ELSE /\ pc' = [pc EXCEPT ![i] = "spawn"]
            /\ UNCHANGED <<rc, result>>
    /\ UNCHANGED <<args, prog, proc, tmpdir, fs>>
    /\ SOther

\* lines 125-132: subprocess.Popen; its failure is a SandboxError.  The
\* interpreter of a snippet call loads the script found in the call's tmpdir.
\* Line 135 then starts the wait with the deadline it computes.
Spawn(i) ==
    /\ pc[i] = "spawn"
    /\ \E spawned \in BOOLEAN :
         IF spawned
         THEN /\ proc' = [proc EXCEPT ![i] =
                    [Proc0 EXCEPT !.spawned = TRUE, !.alive = TRUE,
                                  !.descendant = prog[i].forks,
                                  !.ran = IF args[i].mode = "snippet" /\ fs[tmpdir[i]].exists
                                          THEN fs[tmpdir[i]].script ELSE 0]]
              /\ pc' = [pc EXCEPT ![i] = "communicate"]
              /\ rc' = [rc EXCEPT ![i].deadline = Deadline(args[i])]
              /\ UNCHANGED result
         ELSE /\ RaisedFrom(i, "Failed to spawn process")
              /\ UNCHANGED proc
    /\ UNCHANGED <<args, prog, tmpdir, fs>>
    /\ SOther

\* proc.communicate returns: the child has ended and its output is at EOF
Collected(i, to) ==
    /\ EOF(i)
    /\ rc' = [rc EXCEPT ![i].stdout = Written(i), ![i].returncode = proc[i].exit_status]
    /\ pc' = [pc EXCEPT ![i] = to]
    /\ UNCHANGED <<args, prog, proc, tmpdir, fs, result>>
    /\ SOther

\* lines 135-137
Communicate(i) ==
    /\ pc[i] = "communicate"
    /\ Collected(i, "finally")

\* line 135 raises something that is not TimeoutExpired (MemoryError while
\* the output is buffered, an OSError of the pipes, TypeError for an
\* input_data that is a str): the try of line 134 has no handler for it, so
\* after the finally block it leaves run_command
CommunicateRaises(i) ==
    /\ pc[i] = "communicate"
    /\ RaisedFrom(i, "Exception")
    /\ UNCHANGED <<args, prog, proc, tmpdir, fs>>
    /\ SOther

\* the handler of line 138 without its line 139
Timeout_LeavesFlag(i) ==
    /\ pc[i] = "communicate"
    /\ HasDeadline(args[i])
    /\ ~EOF(i)
    /\ pc' = [pc EXCEPT ![i] = "terminate"]
    /\ UNCHANGED <<args, prog, proc, rc, tmpdir, fs, result>>
    /\ SOther

\* lines 138-139: TimeoutExpired, when a deadline is set and the wait is not
\* over by then
Timeout(i) ==
    /\ pc[i] = "communicate"
    /\ HasDeadline(args[i])
    /\ ~EOF(i)
    /\ rc' = [rc EXCEPT ![i].timed_out = TRUE]
    /\ pc' = [pc EXCEPT ![i] = "terminate"]
    /\ UNCHANGED <<args, prog, proc, tmpdir, fs, result>>
    /\ SOther

\* line 141: proc.terminate().  send_signal polls first: a child that has
\* ended is reaped and not signalled; os.kill on a child the parent may not
\* signal raises PermissionError, which the except Exception of line 152
\* takes.
Terminate(i) ==
    /\ pc[i] = "terminate"
    /\ CASE proc[i].alive /\ ~prog[i].signalable ->
              /\ rc' = [rc EXCEPT ![i].term_called = TRUE]
              /\ pc' = [pc EXCEPT ![i] = "fallback_kill"]
              /\ UNCHANGED proc
         [] proc[i].alive /\ prog[i].signalable ->
              /\ rc' = [rc EXCEPT ![i].term_called = TRUE, ![i].term_sent = TRUE]
              /\ proc' = [proc EXCEPT ![i].term_pending = TRUE]
              /\ pc' = [pc EXCEPT ![i] = "grace"]
         [] OTHER ->
              /\ rc' = [rc EXCEPT ![i].term_called = TRUE,
                                  ![i].returncode = proc[i].exit_status]
              /\ pc' = [pc EXCEPT ![i] = "grace"]
              /\ UNCHANGED proc
    /\ UNCHANGED <<args, prog, tmpdir, fs, result>>
    /\ SOther

\* lines 143-145: the wait of the grace period returns
GraceReturn(i) ==
    /\ pc[i] = "grace"
    /\ Collected(i, "finally")

\* line 146: the grace period ends with the wait not over
GraceExpire(i) ==
    /\ pc[i] = "grace"
    /\ ~EOF(i)
    /\ rc' = [rc EXCEPT ![i].grace_expired = TRUE,
                        ![i].alive_at_grace_end = proc[i].alive]
    /\ pc' = [pc EXCEPT ![i] = "kill"]
    /\ UNCHANGED <<args, prog, proc, tmpdir, fs, result>>
    /\ SOther

\* mutant of WaitRaises: nothing takes the exception of the wait
WaitRaises_Propagates(i) ==
    /\ pc[i] \in {"grace", "final_wait"}
    /\ RaisedFrom(i, "Exception")
    /\ UNCHANGED <<args, prog, proc, tmpdir, fs>>
    /\ SOther

\* the wait of line 143 or of line 149 raises something that is not
\* TimeoutExpired: the except Exception of line 152 takes it
WaitRaises(i) ==
    /\ pc[i] \in {"grace", "final_wait"}
    /\ pc' = [pc EXCEPT ![i] = "fallback_kill"]
    /\ UNCHANGED <<args, prog, proc, rc, tmpdir, fs, result>>
    /\ SOther

\* what proc.kill() does to the child and to proc.returncode
KillEffect(i) ==
    IF proc[i].alive
    THEN /\ proc' = [proc EXCEPT ![i].kill_pending = TRUE]
         /\ rc' = [rc EXCEPT ![i].killed = TRUE, ![i].kill_called = TRUE,
                             ![i].kill_sent = TRUE,
                             ![i].kill_before_grace_end = ~rc[i].grace_expired]
    ELSE /\ rc' = [rc EXCEPT ![i].killed = TRUE, ![i].kill_called = TRUE,
                             ![i].kill_before_grace_end = ~rc[i].grace_expired,
                             ![i].returncode = proc[i].exit_status]
         /\ UNCHANGED proc

\* lines 147-148: proc.kill(); killed = True
Kill(i) ==
    /\ pc[i] = "kill"
    /\ KillEffect(i)
    /\ pc' = [pc EXCEPT ![i] = "final_wait"]
    /\ UNCHANGED <<args, prog, tmpdir, fs, result>>
    /\ SOther

\* lines 149-151: proc.communicate() with no timeout
FinalWait(i) ==
    /\ pc[i] = "final_wait"
    /\ Collected(i, "finally")

\* lines 152-157: terminate or the wait raised something else: proc.kill()
\* at once; when that raises too, killed stays False
FallbackKill(i) ==
    /\ pc[i] = "fallback_kill"
    /\ IF proc[i].alive /\ ~prog[i].signalable
       THEN /\ rc' = [rc EXCEPT ![i].kill_called = TRUE,
                                ![i].kill_before_grace_end = TRUE]
            /\ UNCHANGED proc
       ELSE KillEffect(i)
    /\ pc' = [pc EXCEPT ![i] = "finally"]
    /\ UNCHANGED <<args, prog, tmpdir, fs, result>>
    /\ SOther

\* RunResult(returncode, stdout, timed_out, killed)
RunResult(r) ==
    [Result0 EXCEPT !.kind = "RunResult", !.returncode = r.returncode,
                    !.stdout = r.stdout, !.timed_out = r.timed_out,
                    !.killed = r.killed]

\* lines 158-179: the finally block and the return
Finally(i) ==
    /\ pc[i] = "finally"
    /\ rc' = [rc EXCEPT ![i].returned = TRUE]
    /\ IF args[i].mode = "command"
       THEN /\ pc' = [pc EXCEPT ![i] = "returned"]
            /\ result' = [result EXCEPT ![i] = RunResult(rc[i])]
       ELSE /\ pc' = [pc EXCEPT ![i] = "cleanup"]
            /\ UNCHANGED result
    /\ UNCHANGED <<args, prog, proc, tmpdir, fs>>
    /\ SOther

\* ---- run_python_snippet's finally, and run_snippet_with_result ----

\* lines 233-237: shutil.rmtree(tmpdir), its failure passed over (a child
\* that ran may leave entries the parent cannot remove); then the RunResult
\* or the exception goes on to the caller
Cleanup(i) ==
    /\ pc[i] = "cleanup"
    /\ \E removed \in BOOLEAN :
         /\ ~removed => proc[i].spawned
         /\ fs' = IF removed THEN [fs EXCEPT ![tmpdir[i]] = File0] ELSE fs
    /\ IF rc[i].exc # NoValue
       THEN /\ pc' = [pc EXCEPT ![i] = "raised"]
            /\ result' = [result EXCEPT ![i] = [Result0 EXCEPT !.kind = "raised",
                                                               !.exc = rc[i].exc]]
       ELSE /\ pc' = [pc EXCEPT ![i] = "parse"]
            /\ UNCHANGED result
    /\ UNCHANGED <<args, prog, proc, rc, tmpdir>>
    /\ SOther

\* mutant of ToolRunOk: a timed-out run with a result counts as ok
ToolRunOk_IgnoresTimeout(rr, result_json) ==
    rr.returncode = 0 /\ result_json # NoValue

\* ok = (rr.returncode == 0) and (not rr.timed_out) and (result_json is not None)
ToolRunOk(rr, result_json) ==
    rr.returncode = 0 /\ ~rr.timed_out /\ result_json # NoValue

\* base.py lines 127-138
ToolRun(rr) ==
    LET parsed == parse_sentinel_json(rr.stdout)
    IN [Result0 EXCEPT !.kind = "ToolRun", !.returncode = rr.returncode,
                       !.stdout = rr.stdout, !.timed_out = rr.timed_out,
                       !.killed = rr.killed, !.result = parsed.result,
                       !.logs = parsed.logs,
                       !.ok = ToolRunOk(rr, parsed.result)]

RunSnippetWithResult(i) ==
    /\ pc[i] = "parse"
    /\ result' = [result EXCEPT ![i] = ToolRun(RunResult(rc[i]))]
    /\ pc' = [pc EXCEPT ![i] = "returned"]
    /\ UNCHANGED <<args, prog, proc, rc, tmpdir, fs>>
    /\ SOther

ParentStep(i) ==
    \/ SnippetMkdtemp(i)
    \/ SnippetWrite(i)
    \/ RunCommandCheck(i)
    \/ Spawn(i)
    \/ Communicate(i)
    \/ CommunicateRaises(i)
    \/ Timeout(i)
    \/ Terminate(i)
    \/ GraceReturn(i)
    \/ GraceExpire(i)
    \/ WaitRaises(i)
    \/ Kill(i)
    \/ FinalWait(i)
    \/ FallbackKill(i)
    \/ Finally(i)
    \/ Cleanup(i)
    \/ RunSnippetWithResult(i)

ChildStep(i) ==
    \/ ChildWrite(i)
    \/ ChildExit(i)
    \/ ChildTerminated(i)
    \/ ChildKilled(i)

SandboxNext ==
    \E i \in Calls :
        \/ ParentStep(i)
        \/ ChildStep(i)
        \/ DescendantClose(i)

(***************************************************************************)
(* pandapipes_runner.py: run_pandapipes_code after the child has gone, on  *)
(* the ToolRun rr that run_snippet_with_result returned.                   *)
(***************************************************************************)

\* What json.loads made of the payload of the last sentinel line, by what
\* run_pandapipes_code and _diagnose read of it.  kind: "null" (no result,
\* or the payload null), "falsy" (0, "", [], false, {}), "truthy" (a number,
\* a string, a non-empty list, true), "object" (a non-empty mapping).  Of an
\* object: the keys read, an absent key and a null value being the same to
\* every .get; user_error_line 0 is null; pipeflow_error "nonstring" is a
\* truthy value that is no string; error is whether the key error holds
\* something; design is absent, a value that is no mapping, or a mapping
\* with or without rows in ext_grid/source (supply) and in pipe (pipes).
Design(kind, supply, pipes) == [kind |-> kind, supply |-> supply, pipes |-> pipes]
NoDesign == Design("absent", FALSE, FALSE)
Designs ==
    {NoDesign, Design("nonobject", FALSE, FALSE)}
    \cup {Design("object", s, p) : s \in BOOLEAN, p \in BOOLEAN}

EmptyObject ==
    [kind |-> "object", user_code_error |-> FALSE, user_error |-> NoValue,
     user_error_line |-> 0, pipeflow_error |-> NoValue, error |-> FALSE,
     design |-> NoDesign]
JsonOther(kind) == [EmptyObject EXCEPT !.kind = kind]
JsonValues ==
    {JsonOther("null"), JsonOther("falsy"), JsonOther("truthy")}
    \cup [kind : {"object"}, user_code_error : BOOLEAN,
          user_error : {NoValue, "Exception"}, user_error_line : 0..1,
          pipeflow_error : {NoValue, "nonstring"} \cup SolveErrors,
          error : BOOLEAN, design : Designs]

\* the object the harness payload reads back as (json.dumps, json.loads):
\* the error object has no design; the tables of a payload are its design
JsonOf(payload, design) ==
    [kind |-> "object", user_code_error |-> payload.user_code_error,
     user_error |-> payload.user_error,
     user_error_line |-> payload.user_error_line,
     pipeflow_error |-> payload.pipeflow_error,
     error |-> (payload.artifacts = "error"),
     design |-> IF payload.tables = "none" THEN NoDesign ELSE design]

\* the designs a payload's tables can hold
DesignsOf(payload) ==
    CASE payload.tables = "none" -> {NoDesign}
      [] payload.tables = "empty" -> {Design("object", FALSE, FALSE)}
      [] OTHER -> {Design("object", s, p) : s \in BOOLEAN, p \in BOOLEAN}

\* The child's stderr, line by line, by what _clean_stderr and _diagnose
\* read of a line: one of the three kinds of noise, blank, or a text.
MaxErrLines == 2
NoiseLines == {"matplotlib_cache", "mplconfigdir", "worker_dir_not_writable"}
Stderrs ==
    UNION {[1..n -> NoiseLines \cup {"blank", "error_a", "error_b"}] :
             n \in 0..MaxErrLines}

\* str.strip() on the joined lines: blank lines at either end go
RECURSIVE LStrip(_)
LStrip(lines) ==
    IF lines # <<>> /\ Head(lines) = "blank" THEN LStrip(Tail(lines)) ELSE lines

RECURSIVE RStrip(_)
RStrip(lines) ==
    IF lines # <<>> /\ lines[Len(lines)] = "blank"
    THEN RStrip(SubSeq(lines, 1, Len(lines) - 1)) ELSE lines

\* _clean_stderr, lines 213-227
clean_stderr(stderr) ==
    RStrip(LStrip(SelectSeq(stderr, LAMBDA ln : ln \notin NoiseLines)))

\* reason and tips; a reason is a text and, for a user code error with an
\* int line, the line that " (line N)" names (0: no such suffix)
Reason(text, line) == [text |-> text, line |-> line]
NoReason == Reason(NoValue, 0)
Diagnosis(reason, tips) == [raised |-> FALSE, reason |-> reason, tips |-> tips]
DiagnoseRaised == [raised |-> TRUE, reason |-> NoReason, tips |-> <<>>]

\* the tips that go with each kind of reason, by their subject
Tips(kind) ==
    CASE kind = "user" -> <<"fix_syntax", "booleans_capitalized", "ensure_net">>
      [] kind = "no_supply" -> <<"add_ext_grid_or_source", "connect_supply", "open_valves">>
      [] kind = "not_converged" -> <<"check_connectivity", "verify_supply", "check_parameters">>
      [] kind = "no_pipes" -> <<"add_pipe">>
      [] kind = "unknown" -> <<"check_boundary_conditions", "review_parameters">>

\* lines 273-283: the last non-blank line of the cleaned stderr, else the
\* structural fallback
Fallback(pipes, stderr_clean) ==
    LET last == SelectSeq(stderr_clean, LAMBDA ln : ln # "blank")
    IN IF last # <<>>
       THEN Diagnosis(Reason(last[Len(last)], 0), <<>>)
       ELSE IF ~pipes
            THEN Diagnosis(Reason("No pipes connecting components.", 0), Tips("no_pipes"))
            ELSE Diagnosis(Reason("Unknown error during run.", 0), Tips("unknown"))

\* mutant of diagnose: the stderr is looked at before the solver's error
diagnose_StderrFirst(artifacts, stderr_clean) ==
    IF artifacts.kind # "object" THEN DiagnoseRaised
    ELSE IF artifacts.user_code_error
    THEN Diagnosis(Reason(IF artifacts.user_error # NoValue
                          THEN artifacts.user_error ELSE "User code error",
                          artifacts.user_error_line), Tips("user"))
    ELSE IF artifacts.design.kind = "nonobject" THEN DiagnoseRaised
    ELSE IF SelectSeq(stderr_clean, LAMBDA ln : ln # "blank") # <<>>
    THEN Fallback(artifacts.design.pipes, stderr_clean)
    ELSE IF artifacts.pipeflow_error = "nonstring" THEN DiagnoseRaised
    ELSE IF artifacts.pipeflow_error = "PipeflowNotConverged"
    THEN IF ~artifacts.design.supply
         THEN Diagnosis(Reason("No supply/boundary condition defined (no ext_grid or source).", 0), Tips("no_supply"))
         ELSE Diagnosis(Reason("Pipeflow did not converge.", 0), Tips("not_converged"))
    ELSE IF artifacts.pipeflow_error # NoValue
    THEN Diagnosis(Reason(artifacts.pipeflow_error, 0), <<>>)
    ELSE Fallback(artifacts.design.pipes, stderr_clean)

\* _diagnose, lines 229-285.  artifacts.get raises on a value that is no
\* mapping (AttributeError), design.get on a design that is none, and
\* "PipeflowNotConverged" in pipe_err on a pipe_err that is no string
\* (TypeError).
diagnose(artifacts, stderr_clean) ==
    IF artifacts.kind # "object" THEN DiagnoseRaised
    ELSE IF artifacts.user_code_error
    THEN Diagnosis(Reason(IF artifacts.user_error # NoValue
                          THEN artifacts.user_error ELSE "User code error",
                          artifacts.user_error_line), Tips("user"))
    ELSE IF artifacts.design.kind = "nonobject" THEN DiagnoseRaised
    ELSE IF artifacts.pipeflow_error = "nonstring" THEN DiagnoseRaised
    ELSE IF artifacts.pipeflow_error = "PipeflowNotConverged"
    THEN IF ~artifacts.design.supply
         THEN Diagnosis(Reason("No supply/boundary condition defined (no ext_grid or source).", 0), Tips("no_supply"))
         ELSE Diagnosis(Reason("Pipeflow did not converge.", 0), Tips("not_converged"))
    ELSE IF artifacts.pipeflow_error # NoValue
    THEN Diagnosis(Reason(artifacts.pipeflow_error, 0), <<>>)
    ELSE Fallback(artifacts.design.pipes, stderr_clean)

\* rr, by what run_pandapipes_code reads of it (logs and wall_time are
\* copied to the returned mapping and read by nothing)
ToolRunRecord(returncode, timed_out, result_json, stderr) ==
    [returncode |-> returncode, timed_out |-> timed_out, result |-> result_json,
     stderr |-> stderr,
     ok |-> ToolRunOk([returncode |-> returncode, timed_out |-> timed_out],
                      IF result_json.kind = "null" THEN NoValue
                      ELSE result_json.kind)]
ToolRun0 == ToolRunRecord(NoExit, FALSE, JsonOther("null"), <<>>)
ToolRuns ==
    {ToolRunRecord(c, t, r, e) :
        c \in {0, 1, SIGKILL}, t \in BOOLEAN, r \in JsonValues, e \in Stderrs}

\* line 290: artifacts = rr.result or {}
ArtifactsOf(rr) ==
    IF rr.result.kind \in {"null", "falsy"} THEN EmptyObject ELSE rr.result

\* line 292, for artifacts that are a mapping
RunOk(rr, artifacts) ==
    /\ rr.ok
    /\ artifacts.pipeflow_error = NoValue
    /\ ~artifacts.error
    /\ ~artifacts.user_code_error

RunnerReturned(ok, artifacts, stderr, rr, reason, tips) ==
    [kind |-> "returned", exc |-> NoValue, ok |-> ok, artifacts |-> artifacts,
     stderr |-> stderr, returncode |-> rr.returncode,
     timed_out |-> rr.timed_out, reason |-> reason, tips |-> tips]
RunnerRaised(exc) ==
    [kind |-> "raised", exc |-> exc, ok |-> FALSE, artifacts |-> EmptyObject,
     stderr |-> <<>>, returncode |-> NoExit, timed_out |-> FALSE,
     reason |-> NoReason, tips |-> <<>>]
NoReturn == [RunnerRaised(NoValue) EXCEPT !.kind = "pending"]

\* lines 290-308.  Line 292 calls artifacts.get when rr.ok is true, line 296
\* calls _diagnose when ok is false: on artifacts that are no mapping both
\* raise AttributeError, and _diagnose has raises of its own.
run_pandapipes_code(rr) ==
    LET artifacts == ArtifactsOf(rr)
        stderr_clean == clean_stderr(rr.stderr)
        ok == RunOk(rr, artifacts)
        diagnosis == diagnose(artifacts, stderr_clean)
    IN IF rr.ok /\ artifacts.kind # "object" THEN RunnerRaised("AttributeError")
       ELSE IF ok
       THEN RunnerReturned(TRUE, artifacts, stderr_clean, rr, NoReason, <<>>)
       ELSE IF diagnosis.raised THEN RunnerRaised("Exception")
       ELSE RunnerReturned(FALSE, artifacts, stderr_clean, rr,
                           diagnosis.reason, diagnosis.tips)

\* run_pandapipes_code not in use
RIdle ==
    /\ rpc = "idle"
    /\ tool_run = ToolRun0
    /\ rreturn = NoReturn

\* run_pandapipes_code holding any ToolRun
RInit ==
    /\ rpc = "called"
    /\ tool_run \in ToolRuns
    /\ rreturn = NoReturn

\* line 288 after a run of the harness: run_snippet_with_result returns the
\* ToolRun of the child that ended by itself: its exit status, the payload
\* of the last sentinel line of its stdout (the harness's, a user's, none).
\* A user's own payload is taken by kind, the stderr is of one line at most.
HCollect ==
    /\ hpc \in {"emitted", "died"}
    /\ rpc = "idle"
    /\ LET parsed == ParentResult(hstdout)
           emitted == SelectSeq(hstdout, LAMBDA l : l.by = "harness")
       IN \E stderr \in {e \in Stderrs : Len(e) <= 1}, design \in Designs,
             forged \in {JsonOther("falsy"), JsonOther("truthy"),
                         [EmptyObject EXCEPT !.design = Design("object", TRUE, TRUE)]} :
            /\ parsed = "A" => design \in DesignsOf(emitted[1].payload)
            /\ tool_run' = ToolRunRecord(hexit, FALSE,
                   CASE parsed = "A" -> JsonOf(emitted[1].payload, design)
                     [] parsed = "B" -> forged
                     [] OTHER -> JsonOther("null"),
                   stderr)
    /\ rpc' = "called"
    /\ UNCHANGED <<hvars, rreturn>>
    /\ UNCHANGED <<vvars, svars, cvars, fvars, qvars>>

\* lines 290-308
RunPandapipesCode ==
    /\ rpc = "called"
    /\ rreturn' = run_pandapipes_code(tool_run)
    /\ rpc' = IF rreturn'.kind = "raised" THEN "raised" ELSE "returned"
    /\ UNCHANGED <<hvars, tool_run>>
    /\ ROther

HarnessNext ==
    \/ HStart
    \/ HExecUser
    \/ HSolve
    \/ HBeginExtract
    \/ HExtract
    \/ HEmit
    \/ HCollect
    \/ RunPandapipesCode

RunnerNext == RunPandapipesCode

(***************************************************************************)
(* The callers: the handlers that validate a code string and hand code to  *)
(* run_pandapipes_code (api/routes_network.py, api/routes_chat.py,         *)
(* tools/scenario_engine.py).                                              *)
(***************************************************************************)
\* the largest number of runs one request starts (the sweep's combinations,
\* fix_issues' max_iter and its final run)
MaxRuns == 3

\* a code string: which string it is, and what validate_pandapipes_code
\* answers when it is handed this string
CodeText(id, accepted) == [id |-> id, accepted |-> accepted]

Callers == {"simulate", "parse_graph", "scenario_sweep", "chat_simulate",
            "chat_fix_issues"}

\* NetworkMutationsTool.run on a string: the regular expressions match
\* nothing and the string comes back as it was, or a numeric literal is
\* rewritten and the string is another one. The rewritten string need not
\* parse: "diameter_m=0x1" becomes "diameter_m=0.050000x1"
Mutations(code, fresh) ==
    {code} \cup {CodeText(fresh, accepted) : accepted \in BOOLEAN}

\* no request in progress
CIdle ==
    /\ cpc = "idle"
    /\ caller = "none"
    /\ ccode = CodeText(0, FALSE)
    /\ cchecked = {}
    /\ cran = {}
    /\ citer = 0

\* a request arrives with any code string
CInit ==
    /\ cpc = "start"
    /\ caller \in Callers
    /\ ccode \in {CodeText(0, accepted) : accepted \in BOOLEAN}
    /\ cchecked = {}
    /\ cran = {}
    /\ citer = 0

\* routes_network.py 151-154, 230-232, 331-335; routes_chat.py 633-635,
\* 778-780: the handler validates the request's string and gives up when it
\* is not accepted. The sweep then mutates the accepted string for its first
\* combination (scenario_engine.py 81-83)
CallerValidate ==
    /\ cpc = "start"
    /\ IF ccode.accepted
       THEN /\ cchecked' = cchecked \cup {ccode}
            /\ cpc' = "ready"
            /\ ccode' \in IF caller = "scenario_sweep"
                          THEN Mutations(ccode, citer + 1)
                          ELSE {ccode}
       ELSE /\ cpc' = "refused"
            /\ UNCHANGED <<cchecked, ccode>>
    /\ UNCHANGED <<caller, cran, citer>>
    /\ COther

\* routes_network.py 155, 262; routes_chat.py 639, 792, 844;
\* scenario_engine.py 84: the string the handler holds is passed to
\* run_pandapipes_code
CallerRun ==
    /\ cpc = "ready"
    /\ cran' = cran \cup {ccode}
    /\ citer' = citer + 1
    /\ cpc' = "ran"
    /\ UNCHANGED <<caller, ccode, cchecked>>
    /\ COther

\* scenario_engine.py 81-83: the next combination mutates the request's
\* string; routes_chat.py 809-836: fix_issues mutates the string it has just
\* run. Neither hands the outcome to validate_pandapipes_code
CallerMutate ==
    /\ cpc = "ran"
    /\ caller \in {"scenario_sweep", "chat_fix_issues"}
    /\ citer < MaxRuns
    /\ ccode' \in Mutations(IF caller = "scenario_sweep"
                            THEN CodeText(0, TRUE) ELSE ccode, citer + 1)
    /\ cpc' = "ready"
    /\ UNCHANGED <<caller, cchecked, cran, citer>>
    /\ COther

\* the handler returns its response
CallerReturn ==
    /\ cpc = "ran"
    /\ cpc' = "done"
    /\ UNCHANGED <<caller, ccode, cchecked, cran, citer>>
    /\ COther

CallersNext ==
    \/ CallerValidate
    \/ CallerRun
    \/ CallerMutate
    \/ CallerReturn

(***************************************************************************)
(* sandbox.py: what run_command hands to subprocess.Popen, and the child   *)
(* between fork and exec (_posix_preexec_fn).                              *)
(***************************************************************************)
\* stands for RLIM_INFINITY; every other limit is below it
NoLimit == 4

RLimit(soft, hard) == [soft |-> soft, hard |-> hard]

Environ(mplconfigdir, mplbackend) ==
    [MPLCONFIGDIR |-> mplconfigdir, MPLBACKEND |-> mplbackend]

\* the env= argument: none for a direct run_command call, lines 218-221 for
\* run_python_snippet, whose tmpdir is "tmpdir" here
SnippetEnv == Environ("tmpdir", "Agg")
NoEnv == Environ("unset", "unset")

\* the arguments of the run_command call: limits.cpu_time_seconds and
\* limits.memory_bytes (0 when not configured), working_dir, env
ForkArgs ==
    [mode : {"command"}, cpu : {0, 1, 2}, mem : {0, 2},
     working_dir : {"none", "dir"}, env : {NoEnv}]
    \cup
    [mode : {"snippet"}, cpu : {0, 1, 2}, mem : {0, 2},
     working_dir : {"tmpdir"}, env : {SnippetEnv}]

\* a process as far as the setup touches it.  Python ignores SIGPIPE in the
\* parent; the parent's hard limits may be below what the call asks for
Processes ==
    [sigpipe : {"ignored"},
     cpu : {RLimit(NoLimit, hard) : hard \in {2, NoLimit}},
     mem : {RLimit(NoLimit, hard) : hard \in {1, NoLimit}},
     uid : {"root", "user"}, gid : {"users"}, cwd : {"start"},
     environ : {Environ(d, b) : d \in {"unset", "elsewhere"},
                                b \in {"unset", "TkAgg"}},
     drop : {"not_reached"}]

\* lines 102-104: a copy of os.environ, updated with env when env is given
env_combined_ParentWins(environ, env) ==
    [k \in DOMAIN environ |-> IF environ[k] # "unset" THEN environ[k] ELSE env[k]]

env_combined(environ, env) ==
    [k \in DOMAIN environ |-> IF env[k] # "unset" THEN env[k] ELSE environ[k]]

\* setrlimit(resource, (soft, hard)) in a process whose limit is cur: only a
\* privileged process may raise its hard limit
setrlimit_allowed(process, cur, soft, hard) ==
    /\ soft <= hard
    /\ hard <= cur.hard \/ process.uid = "root"

\* no Popen in progress
FIdle ==
    /\ fpc = "idle"
    /\ fargs = [mode |-> "command", cpu |-> 0, mem |-> 0,
                working_dir |-> "none", env |-> NoEnv]
    /\ fparent = [sigpipe |-> "ignored", cpu |-> RLimit(NoLimit, NoLimit),
                  mem |-> RLimit(NoLimit, NoLimit), uid |-> "user",
                  gid |-> "users", cwd |-> "start", environ |-> NoEnv,
                  drop |-> "not_reached"]
    /\ fchild = fparent
    /\ fsteps = <<>>

\* run_command at line 130, in any parent and with any arguments
FInit ==
    /\ fpc = "popen"
    /\ fargs \in ForkArgs
    /\ fparent \in Processes
    /\ fchild = fparent
    /\ fsteps = <<>>

\* line 130: Popen forks.  The child starts as a copy of the parent with the
\* environment of lines 102-104; before it calls preexec_fn, Popen has
\* changed into cwd= (line 110) and restored SIGPIPE (restore_signals)
PopenFork ==
    /\ fpc = "popen"
    /\ fchild' = [fparent EXCEPT
                    !.environ = env_combined(fparent.environ, fargs.env),
                    !.cwd = IF fargs.working_dir # "none"
                            THEN fargs.working_dir ELSE @,
                    !.sigpipe = "default"]
    /\ fpc' = "sigpipe"
    /\ UNCHANGED <<fargs, fparent, fsteps>>
    /\ FOther

\* _posix_preexec_fn without its line 41
ResetSigpipe_Skipped ==
    /\ fpc = "sigpipe"
    /\ fpc' = "cpu"
    /\ UNCHANGED <<fargs, fparent, fchild, fsteps>>
    /\ FOther

\* line 41
ResetSigpipe ==
    /\ fpc = "sigpipe"
    /\ fchild' = [fchild EXCEPT !.sigpipe = "default"]
    /\ fsteps' = Append(fsteps, "sigpipe")
    /\ fpc' = "cpu"
    /\ UNCHANGED <<fargs, fparent>>
    /\ FOther

\* lines 43-46.  setrlimit raising leaves preexec_fn: the child ends without
\* running the target and Popen raises, which line 132 turns into a
\* SandboxError
SetCpuLimit ==
    /\ fpc = "cpu"
    /\ IF fargs.cpu = 0
       THEN /\ fpc' = "mem"
            /\ UNCHANGED <<fchild, fsteps>>
       ELSE IF setrlimit_allowed(fchild, fchild.cpu, fargs.cpu, fargs.cpu + 1)
       THEN /\ fchild' = [fchild EXCEPT !.cpu = RLimit(fargs.cpu, fargs.cpu + 1)]
            /\ fsteps' = Append(fsteps, "cpu")
            /\ fpc' = "mem"
       ELSE /\ fpc' = "failed"
            /\ UNCHANGED <<fchild, fsteps>>
    /\ UNCHANGED <<fargs, fparent>>
    /\ FOther

\* lines 48-50
SetMemoryLimit ==
    /\ fpc = "mem"
    /\ IF fargs.mem = 0
       THEN /\ fpc' = "drop"
            /\ UNCHANGED <<fchild, fsteps>>
       ELSE IF setrlimit_allowed(fchild, fchild.mem, fargs.mem, fargs.mem)
       THEN /\ fchild' = [fchild EXCEPT !.mem = RLimit(fargs.mem, fargs.mem)]
            /\ fsteps' = Append(fsteps, "mem")
            /\ fpc' = "drop"
       ELSE /\ fpc' = "failed"
            /\ UNCHANGED <<fchild, fsteps>>
    /\ UNCHANGED <<fargs, fparent>>
    /\ FOther

\* what lines 52-69 leave behind for each way they can end: the user lookup
\* fails (line 57), setgid fails (line 63), setuid fails (line 64), or both
\* succeed; gid is nogroup's, or nobody's own group when line 59 fails
Dropped(process, outcome, gid) ==
    CASE outcome = "no_user" -> [process EXCEPT !.drop = outcome]
      [] outcome = "setgid_failed" -> [process EXCEPT !.drop = outcome]
      [] outcome = "setuid_failed" -> [process EXCEPT !.drop = outcome, !.gid = gid]
      [] OTHER -> [process EXCEPT !.drop = "dropped", !.gid = gid,
                                  !.uid = "nobody"]

\* lines 52-69 with the except clauses of lines 65 and 68 removed
DropPrivileges_Propagates ==
    /\ fpc = "drop"
    /\ IF fchild.uid = "root"
       THEN \E outcome \in {"no_user", "setgid_failed", "setuid_failed", "dropped"},
               gid \in {"nogroup", "nobody"} :
              /\ fchild' = Dropped(fchild, outcome, gid)
              /\ fsteps' = Append(fsteps, "drop")
              /\ fpc' = IF outcome = "dropped" THEN "chdir" ELSE "failed"
       ELSE /\ fchild' = [fchild EXCEPT !.drop = "skipped"]
            /\ fpc' = "chdir"
            /\ UNCHANGED fsteps
    /\ UNCHANGED <<fargs, fparent>>
    /\ FOther

\* lines 52-69: only a child whose effective uid is 0 tries; whatever
\* raises on the way is passed over
DropPrivileges ==
    /\ fpc = "drop"
    /\ IF fchild.uid = "root"
       THEN \E outcome \in {"no_user", "setgid_failed", "setuid_failed", "dropped"},
               gid \in {"nogroup", "nobody"} :
              /\ fchild' = Dropped(fchild, outcome, gid)
              /\ fsteps' = Append(fsteps, "drop")
       ELSE /\ fchild' = [fchild EXCEPT !.drop = "skipped"]
            /\ UNCHANGED fsteps
    /\ fpc' = "chdir"
    /\ UNCHANGED <<fargs, fparent>>
    /\ FOther

\* lines 71-75: os.chdir(working_dir), its failure passed over (the
\* directory may be closed to the user the child has become)
ChangeDir ==
    /\ fpc = "chdir"
    /\ IF fargs.working_dir = "none"
       THEN UNCHANGED <<fchild, fsteps>>
       ELSE /\ fsteps' = Append(fsteps, "chdir")
            /\ \E entered \in BOOLEAN :
                 fchild' = [fchild EXCEPT !.cwd = IF entered
                                                  THEN fargs.working_dir ELSE @]
    /\ fpc' = "exec"
    /\ UNCHANGED <<fargs, fparent>>
    /\ FOther

\* preexec_fn has returned: the child executes the target program and
\* Popen returns to line 134
ExecTarget ==
    /\ fpc = "exec"
    /\ fpc' = "executing"
    /\ UNCHANGED <<fargs, fparent, fchild, fsteps>>
    /\ FOther

ForkNext ==
    \/ PopenFork
    \/ ResetSigpipe
    \/ SetCpuLimit
    \/ SetMemoryLimit
    \/ DropPrivileges
    \/ ChangeDir
    \/ ExecTarget

(***************************************************************************)
(* security.py: is_safe_path called on its own, with any path and root.    *)
(***************************************************************************)
\* the longest path argument, in components
MaxParts == 3

PathNames == {"tmp", "pipewise_storage", "pipewise_storage_evil", "etc", ".", ".."}

\* None, and the absolute and relative paths of up to MaxParts components
PathInputs ==
    {NoDir} \cup
    {Path(abs, parts) : abs \in BOOLEAN,
                        parts \in UNION {[1..n -> PathNames] : n \in 1..MaxParts}}

\* the allowed roots: the default, one written with "..", the file system
\* root, the parent of the server's directory, None
RootInputs ==
    {DEFAULT_ALLOWED_ROOT,
     Path(TRUE, <<"tmp", "etc", "..", "pipewise_storage">>),
     Path(TRUE, <<>>), Path(FALSE, <<"..">>), NoDir}

\* no call of is_safe_path in progress
QIdle ==
    /\ qpc = "idle"
    /\ qpath = NoDir
    /\ qroot = NoDir
    /\ qsafe = FALSE

QInit ==
    /\ qpc = "called"
    /\ qpath \in PathInputs
    /\ qroot \in RootInputs
    /\ qsafe = FALSE

\* lines 45-51: the call returns
IsSafePath ==
    /\ qpc = "called"
    /\ qsafe' = is_safe_path(qpath, qroot)
    /\ qpc' = "returned"
    /\ UNCHANGED <<qpath, qroot>>
    /\ QOther

PathNext == IsSafePath

\* the validator not in use
VIdle ==
    /\ vcode = NoCode
    /\ VRest

\* one call of validate_pandapipes_code
ValidateNext == Validate
ValidateInit == VInit /\ HIdle /\ SIdle /\ RIdle /\ CIdle /\ FIdle /\ QIdle
ValidateSpec == ValidateInit /\ [][ValidateNext]_vars

\* calls of validate_pandapipes_code one after the other
RevalidateNext ==
    \/ Validate
    \/ ValidateAgain
RevalidateInit == VInitPure /\ HIdle /\ SIdle /\ RIdle /\ CIdle /\ FIdle /\ QIdle
RevalidateSpec == RevalidateInit /\ [][RevalidateNext]_vars

\* one run of the harness
HarnessInit == HInit /\ VIdle /\ SIdle /\ RIdle /\ CIdle /\ FIdle /\ QIdle
HarnessSpec == HarnessInit /\ [][HarnessNext]_vars

\* one call of run_pandapipes_code past its line 288, on any ToolRun
RunnerInit == RInit /\ VIdle /\ HIdle /\ SIdle /\ CIdle /\ FIdle /\ QIdle
RunnerSpec == RunnerInit /\ [][RunnerNext]_vars

\* one request to a handler that runs code
CallersInit == CInit /\ VIdle /\ HIdle /\ SIdle /\ RIdle /\ FIdle /\ QIdle
CallersSpec == CallersInit /\ [][CallersNext]_vars

\* one Popen of run_command, up to the exec of the target
ForkInit == FInit /\ VIdle /\ HIdle /\ SIdle /\ RIdle /\ CIdle /\ QIdle
ForkSpec == ForkInit /\ [][ForkNext]_vars

\* one call of is_safe_path
PathInit == QInit /\ VIdle /\ HIdle /\ SIdle /\ RIdle /\ CIdle /\ FIdle
PathSpec == PathInit /\ [][PathNext]_vars

\* one call into the sandbox
Init == SInit /\ VIdle /\ HIdle /\ RIdle /\ CIdle /\ FIdle /\ QIdle
Spec == Init /\ [][SandboxNext]_vars

\* the parent runs when it can, a signalled child dies, a program that ends
\* by itself does end; a descendant need never close its pipes
Fairness ==
    \A i \in Calls :
        /\ WF_vars(ParentStep(i))
        /\ WF_vars(ChildStep(i))

\* one call whose program prints at most one line: whether the parent
\* returns does not depend on what the child prints
FairInit ==
    /\ Init
    /\ \A i \in Calls : prog[i].out \in {<<>>, <<"json_A">>}

FairSpec == FairInit /\ [][SandboxNext]_vars /\ Fairness

\* NumCalls concurrent snippet calls
ConcurrentInit == SInitConcurrent /\ VIdle /\ HIdle /\ RIdle /\ CIdle /\ FIdle /\ QIdle
ConcurrentSpec == ConcurrentInit /\ [][SandboxNext]_vars


(***************************************************************************)
(* Claims about the validator (checked under ValidateSpec).                *)
(***************************************************************************)
\* whether the tree holds, at any depth, an import whose root module is not
\* pandapipes
RECURSIVE HasDisallowedImport(_)
HasDisallowedImport(node) ==
    \/ /\ node.kind = "Import"
       /\ \E k \in 1..Len(node.names) : node.names[k].name[1] # "pandapipes"
    \/ /\ node.kind = "ImportFrom"
       /\ (node.module = <<>> \/ node.module[1] # "pandapipes")
    \/ \E k \in 1..Len(iter_child_nodes(node)) :
         HasDisallowedImport(iter_child_nodes(node)[k])

Parses(code) == code.text = "source" /\ code.parse = "ok"

HasLevel(msgs, levels) == \E k \in 1..Len(msgs) : msgs[k].level \in levels

\* C1: a program that contains, at any nesting depth, an import statement
\* whose root module is not pandapipes is answered with ok = False and at
\* least one message of level blocked.
C1_DisallowedImportBlocked ==
    (vpc # "called" /\ Parses(vcode) /\ HasDisallowedImport(ast_parse(vcode)))
        => /\ vpc = "returned"
           /\ vresult.ok = FALSE
           /\ HasLevel(vresult.messages, {"blocked"})

\* witness of C1: "import pandapipes, os.path" inside a function body has been
\* validated and rejected
C1_Witness ==
    /\ vpc = "returned"
    /\ \E k \in 1..Len(vcode.stmts) : vcode.stmts[k] = <<3, 1>>
    /\ ~vresult.ok

\* C2: on every return path the returned ok equals "no returned message has
\* level blocked or error"; a result with warnings only has ok = True.
C2_OkIffNoBlockedOrError ==
    vpc = "returned" =>
        (vresult.ok <=> ~HasLevel(vresult.messages, {"blocked", "error"}))

\* witness of C2: a program without the text "import pandapipes" returned the
\* warning as its only message, with ok = True
C2_Witness ==
    /\ vpc = "returned"
    /\ Len(vresult.messages) = 1
    /\ vresult.messages[1].level = "warn"
    /\ vresult.ok

\* C3: validate_pandapipes_code never raises, whatever the input text.
\* (Violated: only SyntaxError is caught around ast.parse.)
C3_NeverRaises ==
    vpc # "raised"

(***************************************************************************)
(* Claims about the harness (checked under HarnessSpec).                   *)
(***************************************************************************)
HDone == hpc \in {"emitted", "died"}

HarnessSentinelLines ==
    Cardinality({k \in 1..Len(hstdout) : hstdout[k].by = "harness" /\ hstdout[k].sentinel})

\* C4: every harness run ends in the state emitted, having printed exactly
\* one sentinel line of its own, whatever failed on the way.
\* (Violated: SystemExit raised by the user code, and an exception of the
\* final json.dumps/print, end the child with no sentinel line.)
C4_EveryRunEmits ==
    HDone => (hpc = "emitted" /\ HarnessSentinelLines = 1)

(***************************************************************************)
(* The sandbox: run_snippet_with_result, run_python_snippet, run_command.  *)
(***************************************************************************)
Ended(i) == pc[i] \in {"returned", "raised"}

\* a sentinel line with a JSON payload
WellFormed(line) == line \in {"json_A", "json_B", "json_null"}

\* the last sentinel line of out with a JSON payload holds an object
ResultExtracted(out) ==
    \E k \in DOMAIN out :
        /\ out[k] \in {"json_A", "json_B"}
        /\ \A j \in DOMAIN out : j > k => ~WellFormed(out[j])

\* C5: the ToolRun that run_snippet_with_result returns has ok = True if and
\* only if the child's returncode is 0, the run did not time out and a result
\* was extracted from a sentinel line; a run that timed out is not ok even
\* when it printed a valid sentinel line before the deadline.
C5_OkIffCleanRun ==
    \A i \in Calls :
        result[i].kind = "ToolRun" =>
            /\ result[i].ok <=> /\ rc[i].returncode = 0
                                /\ ~rc[i].timed_out
                                /\ ResultExtracted(rc[i].stdout)
            /\ (result[i].result # NoValue) <=> ResultExtracted(rc[i].stdout)
            /\ rc[i].timed_out => ~result[i].ok

\* a run that timed out after its child had printed a result and exited 0
C5_Witness ==
    \E i \in Calls :
        /\ result[i].kind = "ToolRun"
        /\ result[i].timed_out
        /\ result[i].returncode = 0
        /\ result[i].result = "A"
        /\ ~result[i].ok

\* C6: after the deadline the parent sends terminate, waits the grace
\* period, and sends the force-kill only if the child is still alive when the
\* grace period ends; such a run has timed_out = True, and killed = True
\* exactly when the force-kill was sent.
C6_KillOnlyIfAlive ==
    \A i \in Calls :
        /\ rc[i].term_called => rc[i].timed_out
        /\ rc[i].kill_sent => /\ rc[i].term_sent
                              /\ rc[i].grace_expired
                              /\ rc[i].alive_at_grace_end
        /\ rc[i].returned => (rc[i].killed <=> rc[i].kill_sent)

OutsideRoot(p) ==
    LET n == abspath(p).parts
        r == DEFAULT_ALLOWED_ROOT.parts
    IN ~(Len(n) >= Len(r) /\ \A k \in 1..Len(r) : n[k] = r[k])

\* the call must be refused: empty command, working_dir outside the allowed
\* root, or working_dir that does not exist
MustRefuse(i) ==
    LET a == args[i]
    IN \/ a.command_empty
       \/ /\ a.working_dir # NoDir
          /\ \/ OutsideRoot(a.working_dir)
             \/ ~exists(abspath(a.working_dir), fs)

SandboxErrors ==
    {"Empty command", "Unsafe working_dir", "Working directory does not exist"}

\* C8: run_command raises SandboxError before any child is spawned when the
\* command is empty or working_dir, made absolute and normalised, is outside
\* the allowed root or does not exist: no process, no RunResult.
C8_RefusedBeforeSpawn ==
    \A i \in Calls :
        (args[i].mode = "command" /\ pc[i] \notin {"unused", "run_command"}
         /\ MustRefuse(i)) =>
            /\ pc[i] = "raised"
            /\ result[i].kind = "raised"
            /\ result[i].exc \in SandboxErrors
            /\ ~proc[i].spawned
            /\ ~rc[i].returned

\* /tmp/pipewise_storage/../../etc exists and starts with the allowed root as
\* a string, and is refused
C8_Witness ==
    \E i \in Calls :
        /\ args[i].mode = "command"
        /\ args[i].working_dir =
               Path(TRUE, <<"tmp", "pipewise_storage", "..", "..", "etc">>)
        /\ ~args[i].command_empty
        /\ pc[i] = "raised"
        /\ result[i].exc = "Unsafe working_dir"
        /\ ~proc[i].spawned

\* C9: when a run_python_snippet call returns or raises, the temp directory
\* it created has been removed.
C9_TmpdirRemoved ==
    \A i \in Calls :
        (args[i].mode = "snippet" /\ Ended(i)) =>
            /\ tmpdir[i] # NoDirName
            /\ ~fs[tmpdir[i]].exists

\* the call holds a temp directory: from mkdtemp to the end of its cleanup
Running(i) ==
    /\ args[i].mode = "snippet"
    /\ pc[i] \notin {"unused", "snippet", "parse", "returned", "raised"}

\* C10: concurrent run_python_snippet calls use pairwise distinct temp
\* directories, no call runs a script another call wrote, and no cleanup
\* removes the directory of a call that is still running.
C10_CallsIsolated ==
    \A i \in Calls :
        /\ Running(i) =>
              /\ fs[tmpdir[i]].exists
              /\ fs[tmpdir[i]].script \in {0, i}
              /\ \A j \in Calls \ {i} : Running(j) => tmpdir[j] # tmpdir[i]
        /\ proc[i].spawned => proc[i].ran = i

\* one call has ended and removed its directory while another, started
\* before that, still runs its child in its own directory
C10_Witness ==
    \E i, j \in Calls :
        /\ i # j
        /\ pc[i] = "returned"
        /\ ~fs[tmpdir[i]].exists
        /\ pc[j] = "communicate"
        /\ proc[j].ran = j
        /\ tmpdir[j] # tmpdir[i]

\* C11: when the child cannot be created run_command raises SandboxError and
\* produces no RunResult; once the child is spawned run_command returns a
\* RunResult and raises nothing, whatever happens while it waits for,
\* signals, or decodes the output of the child.
C11_SpawnedNeverRaises ==
    \A i \in Calls :
        (args[i].mode = "command" /\ Ended(i)) =>
            IF proc[i].spawned
            THEN pc[i] = "returned" /\ result[i].kind = "RunResult"
            ELSE /\ pc[i] = "raised"
                 /\ result[i].exc \in SandboxErrors \cup {"Failed to spawn process"}

(***************************************************************************)
(* The validator: parse failures, clean programs, dunder access, the       *)
(* collection of all violations, counts against reports.                   *)
(***************************************************************************)
Blocked(msgs) == {k \in 1..Len(msgs) : msgs[k].level = "blocked"}
Errors(msgs) == {k \in 1..Len(msgs) : msgs[k].level = "error"}

\* C12: every input that fails to parse is answered with ok = False, exactly
\* one error message, located at the line the parser reported, no blocked
\* message, and empty inferred facts.
C12_ParseFailureReported ==
    (vpc # "called" /\ vcode.text = "source" /\ vcode.parse # "ok") =>
        /\ vpc = "returned"
        /\ ~vresult.ok
        /\ Cardinality(Errors(vresult.messages)) = 1
        /\ \A k \in Errors(vresult.messages) :
              vcode.errline # 0 => vresult.messages[k].where.line = vcode.errline
        /\ Blocked(vresult.messages) = {}
        /\ vresult.inferred = EmptyInferred

\* the name at the bottom of a chain of attribute accesses
RECURSIVE Base(_)
Base(node) == IF node.kind = "Attribute" THEN Base(node.value) ELSE node

\* a call on the library: pp.fn(...), pandapipes.fn(...), pandapipes.sub.fn(...)
LibraryCall(node) ==
    /\ node.kind = "Call"
    /\ node.func.kind = "Attribute"
    /\ Base(node.func).kind = "Name"
    /\ Base(node.func).id \in {"pp", "pandapipes"}

\* the number of violations of a kind that the node itself is
Own(node, kind) ==
    CASE kind = "import" /\ node.kind = "Import" ->
            Cardinality({k \in 1..Len(node.names) : node.names[k].name[1] # "pandapipes"})
      [] kind = "import" /\ node.kind = "ImportFrom" ->
            IF node.module = <<>> \/ node.module[1] # "pandapipes" THEN 1 ELSE 0
      [] kind = "call" /\ LibraryCall(node) ->
            IF node.func.attr \notin ALLOWED_FUNCS THEN 1 ELSE 0
      [] kind = "dunder" /\ node.kind = "Attribute" ->
            IF IsDunder(node.attr) /\ node.attr # "__version__" THEN 1 ELSE 0
      [] OTHER -> 0

ViolationKinds == {"import", "call", "dunder"}

\* the violations of a kind in the tree under node; line 0 stands for any line
RECURSIVE Violations(_, _, _), ViolationsIn(_, _, _)
Violations(node, kind, line) ==
    (IF line = 0 \/ (node.kind # "Module" /\ node.kind # "alias"
                     /\ node.kind # "keyword" /\ node.lineno = line)
     THEN Own(node, kind) ELSE 0)
    + ViolationsIn(iter_child_nodes(node), kind, line)
ViolationsIn(nodes, kind, line) ==
    IF nodes = <<>> THEN 0
    ELSE Violations(Head(nodes), kind, line) + ViolationsIn(Tail(nodes), kind, line)

\* C13: a program that imports only pandapipes, whose calls on the library are
\* all whitelisted, and that has no dunder attribute access, is answered
\* with ok = True.
C13_CleanProgramOk ==
    (vpc # "called" /\ Parses(vcode)
     /\ \A kind \in ViolationKinds : Violations(ast_parse(vcode), kind, 0) = 0)
        => vpc = "returned" /\ vresult.ok

\* the attribute nodes under node whose name is a dunder other than __version__
RECURSIVE DunderNodes(_)
DunderNodes(node) ==
    (IF Own(node, "dunder") = 1 THEN {node} ELSE {})
    \cup UNION {DunderNodes(iter_child_nodes(node)[k]) : k \in 1..Len(iter_child_nodes(node))}

\* C14: every attribute access whose name starts with a double underscore
\* and is not __version__, anywhere in the tree, also as the callee of a
\* call, gets a blocked message of its own, and ok is False.
C14_DunderBlocked ==
    (vpc # "called" /\ Parses(vcode)) =>
        \A n \in DunderNodes(ast_parse(vcode)) :
            /\ vpc = "returned"
            /\ ~vresult.ok
            /\ \E k \in Blocked(vresult.messages) :
                  /\ vresult.messages[k].text = <<"Disallowed access to", <<n.attr>>>>
                  /\ vresult.messages[k].where = [line |-> n.lineno, col |-> n.col_offset + 1]

\* x.__class__() and pp.__subclasses__() were validated: the callees are
\* reported
C14_Witness ==
    /\ vpc = "returned"
    /\ vcode.stmts = <<<<17, 1>>, <<16, 0>>>>
    /\ ~vresult.ok
    /\ \E k \in Blocked(vresult.messages) :
          vresult.messages[k].text = <<"Disallowed access to", <<"__subclasses__">>>>

MessagePrefixes(kind) ==
    CASE kind = "import" -> {"Disallowed import", "Disallowed import from"}
      [] kind = "call" -> {"Disallowed function"}
      [] OTHER -> {"Disallowed access to"}

\* the blocked messages of a kind located at a line
MessagesAt(msgs, kind, line) ==
    {k \in Blocked(msgs) : /\ msgs[k].text[1] \in MessagePrefixes(kind)
                           /\ msgs[k].where.line = line}

SourceLines == 1..((MaxStmts + 1) * (MaxNest + 2))

\* C15: all violations of all kinds are collected: for every line and kind
\* there are at least as many blocked messages of that kind at that line as
\* there are violations of that kind on that line.
C15_AllViolationsCollected ==
    (vpc # "called" /\ Parses(vcode)) =>
        /\ vpc = "returned"
        /\ \A kind \in ViolationKinds, line \in SourceLines :
              Cardinality(MessagesAt(vresult.messages, kind, line))
                  >= Violations(ast_parse(vcode), kind, line)

\* "import os, sys" on line 1 and "pp.__subclasses__()" on line 3: two
\* messages for line 1, and a call message and a dunder message for line 3
C15_Witness ==
    /\ vpc = "returned"
    /\ vcode.stmts = <<<<19, 0>>, <<16, 1>>>>
    /\ Cardinality(MessagesAt(vresult.messages, "import", 1)) = 2
    /\ Cardinality(MessagesAt(vresult.messages, "call", 3)) = 1
    /\ Cardinality(MessagesAt(vresult.messages, "dunder", 3)) = 1

\* a Disallowed function message was emitted for the call node
Reported(msgs, node) ==
    \E k \in Blocked(msgs) :
        /\ msgs[k].text[1] = "Disallowed function"
        /\ msgs[k].where = [line |-> node.lineno, col |-> node.col_offset + 1]

\* the call nodes of the tree that count toward the component kind and were
\* not reported, as positions of the walk
UnreportedCalls(tree, msgs, kind) ==
    {k \in 1..Len(ast_walk(tree)) :
        LET n == ast_walk(tree)[k]
        IN /\ n.kind = "Call"
           /\ n.func.kind \in {"Name", "Attribute"}
           /\ CountedKind(IF n.func.kind = "Name" THEN n.func.id ELSE n.func.attr) = kind
           /\ ~Reported(msgs, n)}

ValueOf(line) ==
    CASE line = "json_A" -> "A"
      [] line = "json_B" -> "B"
      [] OTHER -> NoValue

SentinelAt(out) == {k \in DOMAIN out : out[k] # "log"}
ParsingAt(out) == {k \in DOMAIN out : WellFormed(out[k])}
Last(S) == CHOOSE k \in S : \A j \in S : j <= k

\* C17: of several sentinel lines the last one in stdout order gives the
\* result (sentinel lines whose payload does not parse are passed over), and
\* the result is None when no sentinel line has a payload that parses.
C17_LastSentinelWins ==
    \A i \in Calls :
        result[i].kind = "ToolRun" =>
            LET out == rc[i].stdout
            IN /\ ParsingAt(out) = {} => result[i].result = NoValue
               /\ (SentinelAt(out) # {} /\ Last(SentinelAt(out)) \in ParsingAt(out))
                     => result[i].result = ValueOf(out[Last(SentinelAt(out))])
               /\ ParsingAt(out) # {}
                     => result[i].result = ValueOf(out[Last(ParsingAt(out))])

\* two sentinel lines with different values: the second is the result
C17_Witness ==
    \E i \in Calls :
        /\ result[i].kind = "ToolRun"
        /\ rc[i].stdout = <<"json_A", "json_B">>
        /\ result[i].result = "B"

C19_ResultIsHarnessPayload ==
    HDone => ParentResult(hstdout) # "B"

\* the payloads the harness has emitted
Emitted ==
    {hstdout[k].payload : k \in {j \in 1..Len(hstdout) :
                                    hstdout[j].by = "harness" /\ hstdout[j].sentinel}}

PastUserCode == hpc \notin {"not_started", "user_code_executing"}
HarnessPayloads == {hstdout[k].payload : k \in {j \in DOMAIN hstdout : hstdout[j].by = "harness"}}

\* C21: user code that runs to its end without raising and binds no global
\* net is a user code error: user_code_error is True, user_error names a
\* NameError, the solver is not invoked, the sentinel line is still
\* emitted and the child exits with status 0.
C21_MissingNetIsUserError ==
    (USER_CODE.ends = "completes" /\ USER_CODE.net = "undefined" /\ PastUserCode) =>
        /\ hglobals.user_code_error
        /\ hglobals.user_error = "NameError"
        /\ hglobals.solved = 0
        /\ HDone => /\ hpc = "emitted"
                    /\ hexit = 0
                    /\ HarnessSentinelLines = 1

\* C22: when the user code raises at a line of its own source, the harness
\* sets user_code_error, user_error to the exception's text and
\* user_error_line to that line, the last traceback frame located in
\* USER_CODE.py; frames of other files never supply the line number.
C22_UserErrorLineIsOwnLine ==
    (USER_CODE.ends = "raises" /\ PastUserCode /\ hpc # "died") =>
        /\ hglobals.user_code_error
        /\ hglobals.user_error = "Exception"
        /\ hglobals.user_error_line = USER_CODE.line

\* C23: when the solver raises, the harness goes on: the exception is the
\* pipeflow_error string, the design tables are still extracted, the
\* sentinel line is still emitted, and run_pandapipes_code returns ok
\* False with the artifacts, design included.  (Runs whose extraction
\* itself raises are left to C24.)
C23_SolveErrorReported ==
    (hglobals.pipeflow_error # NoValue /\ hglobals.artifacts # "error") =>
        /\ HDone => /\ hpc = "emitted"
                    /\ \A payload \in HarnessPayloads :
                         /\ payload.pipeflow_error = hglobals.pipeflow_error
                         /\ payload.tables # "none"
        /\ rpc # "raised"
        /\ rpc = "returned" =>
             /\ ~rreturn.ok
             /\ rreturn.artifacts.pipeflow_error = hglobals.pipeflow_error
             /\ rreturn.artifacts.design.kind = "object"

C25_AlwaysStructuredResult ==
    /\ rpc # "raised"
    /\ rpc = "returned" => rreturn.kind = "returned"

\* the lines of rr.stderr that are neither noise nor blank
ErrorTexts(stderr) == SelectSeq(stderr, LAMBDA ln : ln \in {"error_a", "error_b"})

\* C30: when run_pandapipes_code returns ok False, reason comes from the
\* first populated source in the order: user code error, solver error, last
\* non-blank line of the cleaned stderr, structural fallback; it is never
\* null.  When it returns ok True, reason is null and tips is empty.
C30_ReasonByPriority ==
    rpc = "returned" =>
        LET a == rreturn.artifacts
            texts == ErrorTexts(tool_run.stderr)
            reason == rreturn.reason.text
        IN IF rreturn.ok
           THEN rreturn.reason = NoReason /\ rreturn.tips = <<>>
           ELSE /\ reason # NoValue
                /\ CASE a.user_code_error ->
                          /\ reason = (IF a.user_error # NoValue THEN a.user_error
                                       ELSE "User code error")
                          /\ rreturn.reason.line = a.user_error_line
                     [] ~a.user_code_error /\ a.pipeflow_error # NoValue ->
                          reason \in {a.pipeflow_error, "Pipeflow did not converge.",
                                      "No supply/boundary condition defined (no ext_grid or source)."}
                     [] ~a.user_code_error /\ a.pipeflow_error = NoValue /\ texts # <<>> ->
                          reason = texts[Len(texts)]
                     [] OTHER ->
                          reason \in {"No pipes connecting components.",
                                      "Unknown error during run."}

C30_Witness ==
    /\ rpc = "returned"
    /\ ~rreturn.ok
    /\ rreturn.artifacts.pipeflow_error = "PipeflowNotConverged"
    /\ ErrorTexts(tool_run.stderr) # <<>>
    /\ tool_run.stderr[1] \in NoiseLines
    /\ rreturn.reason.text = "Pipeflow did not converge."

(***************************************************************************)
(* The sandbox: when the output is parsed, what a timeout turns into       *)
(* (checked under Spec).                                                   *)
(***************************************************************************)

\* C26: within one run the sentinel lines are extracted from stdout only
\* after the child has terminated and its stdout has reached EOF, on every
\* path through run_command: normal exit, terminate within the grace
\* period, force-kill, an error while signalling the child.
C26_ParseOnlyAfterEOF ==
    \A i \in Calls :
        (args[i].mode = "snippet" /\ pc[i] = "parse") =>
            /\ ~proc[i].alive
            /\ EOF(i)

\* C27: a wall-clock timeout never leaves run_command, run_python_snippet
\* or run_snippet_with_result as an exception: the call returns a RunResult
\* or ToolRun with timed_out True.
C27_TimeoutIsAField ==
    \A i \in Calls :
        rc[i].timed_out =>
            /\ pc[i] # "raised"
            /\ Ended(i) => /\ result[i].kind \in {"RunResult", "ToolRun"}
                           /\ result[i].timed_out

C27_Witness ==
    \E i \in Calls :
        /\ pc[i] = "returned"
        /\ result[i].kind = "ToolRun"
        /\ result[i].timed_out
        /\ rc[i].kill_before_grace_end

(***************************************************************************)
(* The validator called again and again (checked under RevalidateSpec),    *)
(* and on no text at all (checked under ValidateSpec).                     *)
(***************************************************************************)

C29_EmptyReturnsEarly ==
    (vpc # "called" /\ vcode.text \in {"None", "empty", "whitespace"}) =>
        /\ vpc = "returned"
        /\ ~vresult.ok
        /\ Len(vresult.messages) = 1
        /\ vresult.messages[1].level = "error"
        /\ vresult.inferred = EmptyInferred

C29_Witness ==
    /\ vpc = "returned"
    /\ vcode.text = "whitespace"
    /\ ~vcode.mentions
    /\ vresult.messages = EmptyMsgs(vcode)

(***************************************************************************)
(* Claims about the callers (checked under CallersSpec).                   *)
(***************************************************************************)
\* C31: on every caller path each code string passed to
\* run_pandapipes_code has itself been accepted by
\* validate_pandapipes_code before it is run.
C31_RunOnlyValidated ==
    \A text \in cran : text \in cchecked

\* C35: the deadline of run_command's wait is the timeout argument whenever
\* one is supplied and limits.wall_time_seconds otherwise; when neither is
\* set there is no deadline, the call returns only once the child has
\* exited, and timed_out is never True.
C35_DeadlineIsTimeoutElseWall ==
    \A i \in Calls :
        proc[i].spawned =>
            /\ rc[i].deadline = IF args[i].timeout # NoTimeout
                                THEN args[i].timeout ELSE args[i].wall
            /\ (args[i].timeout = NoTimeout /\ args[i].wall = NoTimeout) =>
                   /\ ~rc[i].timed_out
                   /\ rc[i].returned => ~proc[i].alive

\* C39: in every RunResult that run_command returns, killed implies
\* timed_out, and a RunResult whose timed_out is False carries the integer
\* exit status of a child that has been waited for.
C39_KilledOnlyAfterTimeout ==
    \A i \in Calls :
        rc[i].returned =>
            /\ rc[i].killed => rc[i].timed_out
            /\ ~rc[i].timed_out =>
                   /\ rc[i].returncode # NoExit
                   /\ rc[i].returncode = proc[i].exit_status
                   /\ ~proc[i].alive
            /\ result[i].kind = "RunResult" =>
                   /\ result[i].killed = rc[i].killed
                   /\ result[i].timed_out = rc[i].timed_out
                   /\ result[i].returncode = rc[i].returncode

\* a child that outlived the deadline and the grace period was killed, and
\* the RunResult says both
C39_Witness ==
    \E i \in Calls :
        /\ result[i].kind = "RunResult"
        /\ result[i].killed
        /\ result[i].timed_out
        /\ rc[i].kill_sent

(***************************************************************************)
(* Claims about the child's setup (checked under ForkSpec).                *)
(***************************************************************************)
\* the place of a setup step in the order of _posix_preexec_fn
StepRank(step) ==
    CASE step = "sigpipe" -> 1
      [] step = "cpu" -> 2
      [] step = "mem" -> 3
      [] step = "drop" -> 4
      [] OTHER -> 5

\* C32: in the child, before the target program begins executing, the
\* setup is done in this order: SIGPIPE back to its default, the CPU limit
\* if configured (soft = cpu_time_seconds, hard = soft + 1), the
\* address-space limit if configured, the attempt to drop privileges, the
\* change into working_dir if given; the parent's limits, identity and
\* working directory stay as they were.
C32_SetupOrderInChildOnly ==
    /\ [](/\ \A m, n \in DOMAIN fsteps :
                m < n => StepRank(fsteps[m]) < StepRank(fsteps[n])
          /\ fpc = "executing" =>
                /\ fsteps # <<>> /\ fsteps[1] = "sigpipe"
                /\ fchild.sigpipe = "default"
                /\ fargs.cpu # 0 =>
                      /\ \E n \in DOMAIN fsteps : fsteps[n] = "cpu"
                      /\ fchild.cpu = RLimit(fargs.cpu, fargs.cpu + 1)
                      /\ fchild.cpu.soft <= fchild.cpu.hard
                /\ fargs.mem # 0 =>
                      /\ \E n \in DOMAIN fsteps : fsteps[n] = "mem"
                      /\ fchild.mem = RLimit(fargs.mem, fargs.mem)
                /\ fargs.working_dir # "none" =>
                      /\ fsteps[Len(fsteps)] = "chdir"
                      /\ fchild.cwd = fargs.working_dir)
    /\ [][/\ fparent'.cpu = fparent.cpu /\ fparent'.mem = fparent.mem
          /\ fparent'.uid = fparent.uid /\ fparent'.gid = fparent.gid
          /\ fparent'.cwd = fparent.cwd
          /\ fparent'.sigpipe = fparent.sigpipe]_vars

\* a root parent with both limits and a working_dir: the child executes the
\* target after all five steps, limited, as nobody, in the directory
C32_Witness ==
    /\ fpc = "executing"
    /\ fsteps = <<"sigpipe", "cpu", "mem", "drop", "chdir">>
    /\ fchild.cpu = RLimit(1, 2)
    /\ fchild.mem = RLimit(2, 2)
    /\ fchild.uid = "nobody"
    /\ fchild.cwd = "dir"
    /\ fparent.uid = "root"
    /\ fparent.cwd = "start"
    /\ fparent.cpu = RLimit(NoLimit, NoLimit)

\* C33: the privilege drop is attempted only in a child whose effective uid
\* is 0, and a failure of any of its steps is passed over: the child goes on
\* to execute the target and run_command reports no error for it.
C33_DropOnlyAsRootFailureSwallowed ==
    /\ (\E n \in DOMAIN fsteps : fsteps[n] = "drop") => fparent.uid = "root"
    /\ fparent.uid # "root" =>
          /\ fchild.drop \in {"not_reached", "skipped"}
          /\ fchild.uid = fparent.uid
          /\ fchild.gid = fparent.gid
    /\ fchild.drop \in {"no_user", "setgid_failed", "setuid_failed"} =>
          /\ fpc \in {"chdir", "exec", "executing"}
          /\ fchild.uid = "root"

\* setgid went through and setuid failed: the target runs as root in the
\* group nogroup, and Popen has returned
C33_Witness ==
    /\ fpc = "executing"
    /\ fchild.drop = "setuid_failed"
    /\ fchild.uid = "root"
    /\ fchild.gid = "nogroup"

\* C36: the child of run_python_snippet gets an environment whose
\* MPLCONFIGDIR is the run's own temp directory and whose MPLBACKEND is
\* "Agg", whatever the parent's environment holds for the two names; the
\* parent's own environment is left as it was.
C36_SnippetEnvOverridesParent ==
    /\ []((fargs.mode = "snippet" /\ fpc \notin {"idle", "popen"}) =>
             /\ fchild.environ.MPLCONFIGDIR = "tmpdir"
             /\ fchild.environ.MPLBACKEND = "Agg")
    /\ [][fparent'.environ = fparent.environ]_vars

\* the parent holds other values for both names
C36_Witness ==
    /\ fargs.mode = "snippet"
    /\ fpc = "executing"
    /\ fparent.environ = Environ("elsewhere", "TkAgg")
    /\ fchild.environ = SnippetEnv

(***************************************************************************)
(* Further claims about the validator (checked under ValidateSpec).        *)
(***************************************************************************)
\* C34: a call is checked against the whitelist only when its callee is an
\* attribute of pp or pandapipes, or of a submodule chain of the library; a
\* call on any other receiver (net.junction.head()), a bare-name call and a
\* builtin call never produce a "Disallowed function" message.
C34_OnlyLibraryCallsPoliced ==
    (vpc = "returned" /\ Parses(vcode)) =>
        \A k \in 1..Len(ast_walk(ast_parse(vcode))) :
            LET n == ast_walk(ast_parse(vcode))[k]
            IN (n.kind = "Call" /\ ~LibraryCall(n)) => ~Reported(vresult.messages, n)

\* the string literals that the create_empty_network calls of the tree pass
\* as their keyword fluid=
FluidLiterals(tree) ==
    UNION {{n.keywords[j].value.value :
               j \in {j \in 1..Len(n.keywords) :
                         /\ n.keywords[j].arg = "fluid"
                         /\ n.keywords[j].value.kind = "Constant"
                         /\ n.keywords[j].value.isStr}} :
           n \in {ast_walk(tree)[k] :
                     k \in {k \in 1..Len(ast_walk(tree)) :
                               /\ ast_walk(tree)[k].kind = "Call"
                               /\ fname(ast_walk(tree)[k].func) = "create_empty_network"}}}

\* C37: inferred.fluid is a string only if some create_empty_network call
\* passes fluid= with a string literal, and it is then one of these
\* literals; a fluid= that is absent, a variable or any other expression
\* contributes nothing, and without such a literal inferred.fluid is null.
C37_FluidOnlyFromLiteral ==
    (vpc = "returned" /\ Parses(vcode)) =>
        /\ vresult.inferred.fluid # NoValue =>
               vresult.inferred.fluid \in FluidLiterals(ast_parse(vcode))
        /\ FluidLiterals(ast_parse(vcode)) = {} => vresult.inferred.fluid = NoValue

\* fluid="lgas" in one call, fluid=FLUID in a later one: the literal stays
C37_Witness ==
    /\ vpc = "returned"
    /\ vcode.stmts = <<<<9, 0>>, <<10, 0>>>>
    /\ vresult.inferred.fluid = "lgas"

(***************************************************************************)
(* Claims about is_safe_path (checked under PathSpec).                     *)
(***************************************************************************)
\* C38: is_safe_path(path, root) returns True exactly when the absolute,
\* lexically normalised path is the allowed root itself or lies beneath it;
\* a path that leaves the root through ".." and a sibling whose name begins
\* with the root's name are refused; on a malformed input it returns False
\* instead of raising.
C38_SafeIffBeneathRoot ==
    /\ qpc \in {"idle", "called", "returned"}
    /\ qpc = "returned" =>
          IF qpath = NoDir \/ qroot = NoDir THEN ~qsafe
          ELSE LET real == abspath(qpath).parts
                   root == abspath(qroot).parts
               IN qsafe <=> /\ Len(real) >= Len(root)
                            /\ SubSeq(real, 1, Len(root)) = root

\* /tmp/pipewise_storage/.. begins with the root as a text and is refused
C38_Witness ==
    /\ qpc = "returned"
    /\ qpath = Path(TRUE, <<"tmp", "pipewise_storage", "..">>)
    /\ qroot = DEFAULT_ALLOWED_ROOT
    /\ ~qsafe
====
